---- MODULE Spec2Model ----
(***************************************************************************)
(* Path geometry synthesis of the line-follower mat designer.              *)
(*                                                                         *)
(* A design is a list of paths, a path is a list of integer grid points.   *)
(* Two consumers derive geometry from a path:                              *)
(*   - buildSegments (segment-builder.ts), the rendering path, which works *)
(*     on the points after the caller's transform (pixels, inches, ...);   *)
(*   - buildNetlistSegments / generateNetlist (paths.ts), the netlist      *)
(*     path, which works on the grid points themselves.                    *)
(*                                                                         *)
(* Transformed coordinates are rationals.  A transform is a record         *)
(* [sn, sd, ox, oy]: the scale is sn/sd and the origin is (ox/sd, oy/sd).  *)
(* A transformed coordinate is kept as its numerator over sd, and every    *)
(* comparison of the source with a literal (1, 2, 0.001) is made on the    *)
(* numerators, so the arithmetic is exact.                                 *)
(***************************************************************************)
EXTENDS Integers, Sequences, FiniteSets, TLC

VARIABLES
    paths,       \* the design: Seq of paths, a path is a Seq of [x, y]
    calls,       \* which of the results below hold a returned value
    transform,   \* the toCanvasPoint transform handed to buildSegments
    segmentInfo, \* local segmentInfo of that buildSegments call at its return
    segments,    \* value returned by buildSegments(paths[1], transform)
    netSegs,     \* value returned by buildNetlistSegments(paths[1])
    netlist,     \* value returned by generateNetlist(paths), split at "\n"
    encoded,     \* a design string (URL parameter), a Seq of characters
    decoded,     \* point sequences of the paths a decoder returned for encoded
    appPaths,          \* LineFollowerApp.paths: Seq of [id, points]
    selection,         \* LineFollowerApp.selection
    pendingPointClick, \* << >> (null) or <<[pathId, pointIndex]>>
    draggedPoint,      \* << >> (null) or <<[pathId, pointIndex]>>
    didDrag,           \* LineFollowerApp.didDrag
    suppressNextClick, \* CanvasView.suppressNextClick
    lastHandler,       \* name of the app handler that ran last (history)
    drawn,             \* the stroke commands of the last rendering, in order
    icons,             \* the icon maps of the paths: entries [pathId, pointIndex, icon]
    design,            \* the paths, with icons, of the design that is encoded
    gridPoints,        \* config: [x |-> GRID_POINTS_X, y |-> GRID_POINTS_Y]
    rand,              \* Math.random: [tape, pos], the outcomes of the calls of a run
    gen,               \* generateMaze: where it is, and its local variables
    mazePaths          \* generateMaze: the paths list of the generator that runs

\* the design string and what was decoded from it
codecVars == <<encoded, decoded>>

\* the editor: LineFollowerApp and the click state of its CanvasView
appVars == <<appPaths, selection, pendingPointClick, draggedPoint, didDrag,
             suppressNextClick, lastHandler>>

\* what a renderer put on its canvas or into its SVG path
drawVars == <<drawn>>

\* Path.icons of every path of the editor
iconVars == <<icons>>

\* this.paths of the app when it encodes the design for the share URL
designVars == <<design>>

\* the maze generator
mazeVars == <<gridPoints, rand, gen, mazePaths>>

\* the variables of the renderers and generators
extraVars == <<drawVars, iconVars, designVars, mazeVars>>

\* the geometry functions' inputs and results
geomVars == <<paths, calls, transform, segmentInfo, segments, netSegs, netlist>>

vars == <<paths, calls, transform, segmentInfo, segments, netSegs, netlist,
          codecVars, appVars, extraVars>>

----------------------------------------------------------------------------
(* Bounds of the model *)

\* the grid points of a single path are (0..MaxX) x (0..MaxY)
MaxX == 2
MaxY == 2
\* most points of a single path.  Five points are the fewest with which a
\* closed path has a wrapped previous point and a look-ahead point that turn
\* its first segment in different directions.
MaxLen == 5

GridPoints == [x : 0..MaxX, y : 0..MaxY]

\* the grid points of a design of several paths are
\* (0..MaxDesignX) x (0..MaxDesignY)
MaxDesignX == 2
MaxDesignY == 1
\* most points in the whole design
MaxDesignPoints == 5
\* most paths in the design
MaxPaths == 3

DesignGridPoints == [x : 0..MaxDesignX, y : 0..MaxDesignY]

\* most points in a design on which the calls are repeated
MaxCallPoints == 3

\* most characters of a design string that is typed in
MaxChars == 6
\* the characters it is typed from: base-62 digits, a character outside the
\* alphabet, the path separator and the icon separator
CodecChars == {"0", "1", "A", "?", ",", "!"}

\* the editor's grid points are (0..MaxAppX) x (0..MaxAppY), and its design
\* has at most MaxAppPoints points
MaxAppX == 1
MaxAppY == 0
MaxAppPoints == 4
AppGridPoints == [x : 0..MaxAppX, y : 0..MaxAppY]

\* the editor with icons: largest x of its grid (y is 0), most points of a design
MaxIconX == 2
MaxIconPoints == 3
IconGridPoints == [x : 0..MaxIconX, y : {0}]

\* the icon types a point is given in the model (config.ts PointIconType has six)
IconTypes == {"play"}

\* designs with icons that are encoded: most paths, most icons of a path, the
\* points of a long path, the lengths of the paths and the indices of the icons
MaxIconPaths == 2
MaxPathIcons == 2
LongPath == 64
PathLengths == {2, LongPath}
IconIndices == {0, 1, 39, 62}
CodecIconTypes == {"play", "stop"}

\* the maze generator: the length of the tape of outcomes of Math.random, the
\* outcomes (in hundredths), the boards (grid points of two of BOARD_SIZES)
TapeLen == 4
RandomValues == {5, 45, 90}
Boards == {[x |-> 13, y |-> 10], [x |-> 25, y |-> 19]}
MazeTypes == {"entry_exit", "multi_merge", "space_filling", "flowing"}

\* most points of a design that is edited with drags
MaxPointerPoints == 3

\* most points of the path that is handed to the renderers
MaxDrawPoints == 3

\* most points in a design that is encoded, and the coordinates of its points
MaxCodecPoints == 4
CodecGridPoints == [x : {0, 3, 24}, y : {0, 24}]

----------------------------------------------------------------------------
(* Geometry primitives *)

Abs(n) == IF n < 0 THEN -n ELSE n

Pt(px, py) == [x |-> px, y |-> py]

Cross(ax, ay, bx, by) == ax * by - ay * bx

\* Math.round(Math.atan2(y, x) * 180 / Math.PI) for 1 <= x, y <= 5; row x, column y
AtanTable ==
    << <<45, 63, 72, 76, 79>>,
       <<27, 45, 56, 63, 68>>,
       <<18, 34, 45, 53, 59>>,
       <<14, 27, 37, 45, 51>>,
       <<11, 22, 31, 39, 45>> >>

\* Math.round(Math.atan2(y, x) * 180 / Math.PI) by the quadrants of atan2.
\* A JavaScript zero has a sign: yNegZero (xNegZero) says that a y (x) of 0 is
\* the negative zero, for which atan2(-0, x) is -180 degrees when x is negative.
RoundAtan2Deg(y, x, yNegZero, xNegZero) ==
    IF y = 0 THEN
        IF x > 0 \/ (x = 0 /\ ~xNegZero) THEN 0
        ELSE IF yNegZero THEN -180 ELSE 180
    ELSE IF x = 0 THEN (IF y > 0 THEN 90 ELSE -90)
    ELSE LET a == AtanTable[Abs(x)][Abs(y)]
         IN  IF x > 0 THEN (IF y > 0 THEN a ELSE -a)
             ELSE (IF y > 0 THEN 180 - a ELSE a - 180)

RECURSIVE normalizeDown(_)
normalizeDown(angle) == IF angle > 180 THEN normalizeDown(angle - 360) ELSE angle

RECURSIVE normalizeUp(_)
normalizeUp(angle) == IF angle <= -180 THEN normalizeUp(angle + 360) ELSE angle

\* normalizeAngle without its second loop: -180 is left as it is
normalizeAngleSlip(angle) == normalizeDown(angle)

\* paths.ts normalizeAngle: two while loops, first down, then up
normalizeAngle(angle) == normalizeUp(normalizeDown(angle))

\* paths.ts vectorToAngle(x, y) on two differences of coordinates (never -0)
vectorToAngle(x, y) == normalizeAngle(RoundAtan2Deg(y, x, FALSE, FALSE))

\* vectorToAngle(rx, -ry): the negated argument is -0 when ry is 0
vectorToAngleNegY(rx, ry) == normalizeAngle(RoundAtan2Deg(-ry, rx, ry = 0, FALSE))

\* vectorToAngle(-rx, ry): the negated argument is -0 when rx is 0
vectorToAngleNegX(rx, ry) == normalizeAngle(RoundAtan2Deg(ry, -rx, FALSE, rx = 0))

\* arc-utils.ts calculateArcParams.  startAngle and endAngle (radians, used only
\* by the canvas arc call) are left out.
calculateArcParams(x0, y0, x1, y1, counterclockwise) ==
    LET dx == x1 - x0
        dy == y1 - y0
        sameSign == (dx > 0 /\ dy > 0) \/ (dx < 0 /\ dy < 0)
        first == (counterclockwise /\ sameSign) \/ (~counterclockwise /\ ~sameSign)
    IN  [centerX |-> IF first THEN x1 ELSE x0,
         centerY |-> IF first THEN y0 ELSE y1,
         radius  |-> Abs(dx),
         counterclockwise |-> counterclockwise]

----------------------------------------------------------------------------
(* Netlist path: paths.ts *)

\* paths.ts getSegmentType(dx, dy): exact comparisons on grid units
getSegmentTypeNet(dx, dy) ==
    LET absDx == Abs(dx)
        absDy == Abs(dy)
    IN  IF absDy = 0 /\ absDx > 0 THEN "H"
        ELSE IF absDx = 0 /\ absDy > 0 THEN "V"
        ELSE IF absDx = absDy THEN "A"
        ELSE "B"

\* NetArcSense with the default of an arc that has neither a previous row nor
\* a look-ahead point turned to counter-clockwise
NetArcSenseOrphanSlip(points, i, infos, dx, dy) ==
    IF Len(infos) > 0 THEN
        LET prev == infos[Len(infos)]
            cross == prev.dx * dy - prev.dy * dx
        IN  IF cross = 0 /\ prev.type = "A"
            THEN [lineType |-> IF prev.lineType = "A+" THEN "A-" ELSE "A+",
                  counterclockwise |-> ~prev.counterclockwise]
            ELSE [lineType |-> IF cross > 0 THEN "A+" ELSE "A-",
                  counterclockwise |-> cross < 0]
    ELSE IF i < Len(points) - 1 THEN
        LET nextDx == points[i + 2].x - points[i + 1].x
            nextDy == points[i + 2].y - points[i + 1].y
            cross == dx * nextDy - dy * nextDx
        IN  [lineType |-> IF cross > 0 THEN "A+" ELSE "A-",
             counterclockwise |-> cross < 0]
    ELSE [lineType |-> "A-", counterclockwise |-> TRUE]

\* the tag and the sense flag of an arc, first pass of buildNetlistSegments
NetArcSense(points, i, infos, dx, dy) ==
    IF Len(infos) > 0 THEN
        LET prev == infos[Len(infos)]
            cross == prev.dx * dy - prev.dy * dx
        IN  IF cross = 0 /\ prev.type = "A"
            THEN [lineType |-> IF prev.lineType = "A+" THEN "A-" ELSE "A+",
                  counterclockwise |-> ~prev.counterclockwise]
            ELSE [lineType |-> IF cross > 0 THEN "A+" ELSE "A-",
                  counterclockwise |-> cross < 0]
    ELSE IF i < Len(points) - 1 THEN
        \* first segment, look ahead (i is 1-based: points[i+2] exists)
        LET nextDx == points[i + 2].x - points[i + 1].x
            nextDy == points[i + 2].y - points[i + 1].y
            cross == dx * nextDy - dy * nextDx
        IN  [lineType |-> IF cross > 0 THEN "A+" ELSE "A-",
             counterclockwise |-> cross < 0]
    ELSE [lineType |-> "A+", counterclockwise |-> FALSE]

\* the first loop of buildNetlistSegments skipping a segment when either
\* coordinate repeats (|| written for &&)
NetInfoStepSlip(points, i, infos) ==
    LET x0 == points[i].x
        y0 == points[i].y
        x1 == points[i + 1].x
        y1 == points[i + 1].y
        dx == x1 - x0
        dy == y1 - y0
        type == getSegmentTypeNet(dx, dy)
        sense == IF type = "A" THEN NetArcSense(points, i, infos, dx, dy)
                 ELSE [lineType |-> type, counterclockwise |-> FALSE]
    IN  IF x0 = x1 \/ y0 = y1 THEN infos
        ELSE Append(infos,
                 [index |-> i - 1, x0 |-> x0, y0 |-> y0, x1 |-> x1, y1 |-> y1,
                  dx |-> dx, dy |-> dy, type |-> type,
                  lineType |-> sense.lineType,
                  angle |-> vectorToAngle(dx, dy),
                  counterclockwise |-> sense.counterclockwise])

\* one iteration of the first loop of buildNetlistSegments (i is 1-based)
NetInfoStep(points, i, infos) ==
    LET x0 == points[i].x
        y0 == points[i].y
        x1 == points[i + 1].x
        y1 == points[i + 1].y
        dx == x1 - x0
        dy == y1 - y0
        type == getSegmentTypeNet(dx, dy)
        sense == IF type = "A" THEN NetArcSense(points, i, infos, dx, dy)
                 ELSE [lineType |-> type, counterclockwise |-> FALSE]
    IN  IF x0 = x1 /\ y0 = y1 THEN infos
        ELSE Append(infos,
                 [index |-> i - 1, x0 |-> x0, y0 |-> y0, x1 |-> x1, y1 |-> y1,
                  dx |-> dx, dy |-> dy, type |-> type,
                  lineType |-> sense.lineType,
                  angle |-> vectorToAngle(dx, dy),
                  counterclockwise |-> sense.counterclockwise])

RECURSIVE NetInfoLoop(_, _, _)
NetInfoLoop(points, i, infos) ==
    IF i > Len(points) - 1 THEN infos
    ELSE NetInfoLoop(points, i + 1, NetInfoStep(points, i, infos))

\* tangent angle of an arc at its start: perpendicular to the start radius
NetArcEntry(seg) ==
    LET arc == calculateArcParams(seg.x0, seg.y0, seg.x1, seg.y1, seg.counterclockwise)
        startRadiusX == seg.x0 - arc.centerX
        startRadiusY == seg.y0 - arc.centerY
    IN  IF seg.counterclockwise THEN vectorToAngleNegY(startRadiusY, startRadiusX)
        ELSE vectorToAngleNegX(startRadiusY, startRadiusX)

\* tangent angle of an arc at its end: perpendicular to the end radius
NetArcExit(seg) ==
    LET arc == calculateArcParams(seg.x0, seg.y0, seg.x1, seg.y1, seg.counterclockwise)
        endRadiusX == seg.x1 - arc.centerX
        endRadiusY == seg.y1 - arc.centerY
    IN  IF seg.counterclockwise THEN vectorToAngleNegY(endRadiusY, endRadiusX)
        ELSE vectorToAngleNegX(endRadiusY, endRadiusX)

\* entry angle of a spline after an arc taken from the arc's start, not its end
NetEntryAngleSlip(infos, i) ==
    LET seg == infos[i]
    IN  IF seg.type = "H" \/ seg.type = "V" THEN seg.angle
        ELSE IF seg.type = "A" THEN NetArcEntry(seg)
        ELSE IF i > 1 /\ (infos[i - 1].type = "H" \/ infos[i - 1].type = "V")
             THEN infos[i - 1].angle
        ELSE IF i > 1 /\ infos[i - 1].type = "A" THEN NetArcEntry(infos[i - 1])
        ELSE seg.angle

\* entry angle of row i before normalisation, second pass of buildNetlistSegments
NetEntryAngle(infos, i) ==
    LET seg == infos[i]
    IN  IF seg.type = "H" \/ seg.type = "V" THEN seg.angle
        ELSE IF seg.type = "A" THEN NetArcEntry(seg)
        ELSE IF i > 1 /\ (infos[i - 1].type = "H" \/ infos[i - 1].type = "V")
             THEN infos[i - 1].angle
        ELSE IF i > 1 /\ infos[i - 1].type = "A" THEN NetArcExit(infos[i - 1])
        ELSE seg.angle

\* exit angle of row i before normalisation, second pass of buildNetlistSegments
NetExitAngle(infos, i) ==
    LET seg == infos[i]
    IN  IF seg.type = "H" \/ seg.type = "V" THEN seg.angle
        ELSE IF seg.type = "A" THEN NetArcExit(seg)
        ELSE IF i < Len(infos) /\ (infos[i + 1].type = "H" \/ infos[i + 1].type = "V")
             THEN infos[i + 1].angle
        ELSE IF i < Len(infos) /\ infos[i + 1].type = "A" THEN NetArcEntry(infos[i + 1])
        ELSE seg.angle

\* the segment number taken from the point index of the segment, which
\* counts the skipped zero-length segments too
NetSegmentNumberSlip(startingSegmentNumber, infos, i) ==
    startingSegmentNumber + infos[i].index

\* the segment number of the row built from infos[i] (i is 1-based)
NetSegmentNumber(startingSegmentNumber, infos, i) == startingSegmentNumber + (i - 1)

\* paths.ts buildNetlistSegments
buildNetlistSegments(points, startingSegmentNumber) ==
    IF Len(points) < 2 THEN << >>
    ELSE LET infos == NetInfoLoop(points, 1, << >>)
         IN  [i \in 1..Len(infos) |->
                 [segmentNumber |-> NetSegmentNumber(startingSegmentNumber, infos, i),
                  angle      |-> infos[i].angle,
                  lineType   |-> infos[i].lineType,
                  entryAngle |-> normalizeAngle(NetEntryAngle(infos, i)),
                  xStart     |-> infos[i].x0,
                  yStart     |-> infos[i].y0,
                  xEnd       |-> infos[i].x1,
                  yEnd       |-> infos[i].y1,
                  exitAngle  |-> normalizeAngle(NetExitAngle(infos, i))]]

----------------------------------------------------------------------------
(* Rendering path: segment-builder.ts.  Coordinates are numerators over u. *)

\* the transforms callers hand to buildSegments: the identity (grid units), the
\* SVG export in inches (2" grid spacing), the default canvas spacing of 24 px
\* with an origin, and a fractional spacing boardSize / (GRID_POINTS - 1)
Transforms ==
    { [sn |-> 1,  sd |-> 1, ox |-> 0,  oy |-> 0],
      [sn |-> 2,  sd |-> 1, ox |-> 0,  oy |-> 0],
      [sn |-> 24, sd |-> 1, ox |-> 40, oy |-> 16],
      [sn |-> 3,  sd |-> 2, ox |-> 1,  oy |-> 5] }

toCanvasPoint(t, p) == Pt(t.ox + p.x * t.sn, t.oy + p.y * t.sn)

\* segment-builder.ts getSegmentType(p0, p1); u is the numerator of 1.0
getSegmentType(p0, p1, u) ==
    LET absDx == Abs(p1.x - p0.x)
        absDy == Abs(p1.y - p0.y)
    IN  IF absDy < u /\ absDx >= u THEN "H"
        ELSE IF absDx < u /\ absDy >= u THEN "V"
        ELSE IF absDx > u /\ absDy > u /\ Abs(absDx - absDy) < 2 * u THEN "A"
        ELSE "B"

hasFixedTangent(type) == type \in {"H", "V", "A"}

\* getArcDirection with the sign test of the cross product reversed
getArcDirectionSlip(prev, p0, p1, next) ==
    IF prev # << >> THEN
        Cross(p0.x - prev[1].x, p0.y - prev[1].y, p1.x - p0.x, p1.y - p0.y) > 0
    ELSE IF next # << >> THEN
        Cross(p1.x - p0.x, p1.y - p0.y, next[1].x - p1.x, next[1].y - p1.y) > 0
    ELSE FALSE

\* segment-builder.ts getArcDirection; prev and next are << >> (null) or <<point>>
getArcDirection(prev, p0, p1, next) ==
    IF prev # << >> THEN
        Cross(p0.x - prev[1].x, p0.y - prev[1].y, p1.x - p0.x, p1.y - p0.y) < 0
    ELSE IF next # << >> THEN
        Cross(p1.x - p0.x, p1.y - p0.y, next[1].x - p1.x, next[1].y - p1.y) < 0
    ELSE FALSE

isClosedPath(pts, u) ==
    /\ Len(pts) > 2
    /\ Abs(pts[1].x - pts[Len(pts)].x) < u
    /\ Abs(pts[1].y - pts[Len(pts)].y) < u

\* neighbour look-ups of buildSegments for segment i (1-based: pts[i] -> pts[i+1])
SegPrev(pts, i, u) ==
    IF i > 1 THEN <<pts[i - 1]>>
    ELSE IF isClosedPath(pts, u) THEN <<pts[Len(pts) - 1]>> ELSE << >>

SegNext(pts, i, u) ==
    IF i < Len(pts) - 1 THEN <<pts[i + 2]>>
    ELSE IF isClosedPath(pts, u) THEN <<pts[2]>> ELSE << >>

\* S-curve test of buildSegments: Math.abs(crossProduct) < 0.001 and the
\* previous segmentInfo entry is an arc
SCurveFlip(prev, p0, p1, info, u) ==
    /\ prev # << >>
    /\ 1000 * Abs(Cross(p0.x - prev[1].x, p0.y - prev[1].y, p1.x - p0.x, p1.y - p0.y)) < u * u
    /\ Len(info) > 0
    /\ info[Len(info)].type = "A"

\* the first loop of buildSegments without its S-curve handling
SegmentInfoStepNoFlip(pts, i, info, u) ==
    LET p0 == pts[i]
        p1 == pts[i + 1]
        type == getSegmentType(p0, p1, u)
        counterclockwise ==
            type = "A" /\ getArcDirection(SegPrev(pts, i, u), p0, p1, SegNext(pts, i, u))
    IN  Append(info, [type |-> type, counterclockwise |-> counterclockwise])

\* one iteration of the first loop of buildSegments
SegmentInfoStep(pts, i, info, u) ==
    LET p0 == pts[i]
        p1 == pts[i + 1]
        prev == SegPrev(pts, i, u)
        next == SegNext(pts, i, u)
        type == getSegmentType(p0, p1, u)
        counterclockwise ==
            IF type # "A" THEN FALSE
            ELSE IF SCurveFlip(prev, p0, p1, info, u)
                 THEN ~info[Len(info)].counterclockwise
                 ELSE getArcDirection(prev, p0, p1, next)
    IN  Append(info, [type |-> type, counterclockwise |-> counterclockwise])

RECURSIVE SegmentInfoLoop(_, _, _, _)
SegmentInfoLoop(pts, i, info, u) ==
    IF i > Len(pts) - 1 THEN info
    ELSE SegmentInfoLoop(pts, i + 1, SegmentInfoStep(pts, i, info, u), u)

\* the local segmentInfo of buildSegments when it returns
buildSegmentInfo(points, t) ==
    LET pts == [i \in 1..Len(points) |-> toCanvasPoint(t, points[i])]
    IN  IF Len(pts) < 2 THEN << >> ELSE SegmentInfoLoop(pts, 1, << >>, t.sd)

RECURSIVE Gcd(_, _)
Gcd(a, b) == IF b = 0 THEN a ELSE Gcd(b, a % b)

\* A vertex tangent is kept as a record [ax, ay, bx, by] of two integer
\* directions, each the zero vector or reduced to lowest terms: with b zero it
\* stands for the unit vector along a (the zero vector when a is zero too),
\* otherwise for the unit vector along a/|a| + b/|b|.

\* segment-builder.ts normalize(v): v / (hypot(v) || 1), the unit vector along
\* v, and v itself when v is the zero vector
normalize(vx, vy) ==
    LET g == Gcd(Abs(vx), Abs(vy))
    IN  IF g = 0 THEN [ax |-> 0, ay |-> 0, bx |-> 0, by |-> 0]
        ELSE [ax |-> vx \div g, ay |-> vy \div g, bx |-> 0, by |-> 0]

getHorizontalTangent(p0, p1) ==
    IF p1.x - p0.x > 0 THEN normalize(1, 0) ELSE normalize(-1, 0)

getVerticalTangent(p0, p1) ==
    IF p1.y - p0.y > 0 THEN normalize(0, 1) ELSE normalize(0, -1)

\* the radius vector rotated by a quarter turn in the direction of travel
ArcTangent(rx, ry, counterclockwise) ==
    IF counterclockwise THEN normalize(ry, -rx) ELSE normalize(-ry, rx)

getArcStartTangent(p0, p1, counterclockwise) ==
    LET arc == calculateArcParams(p0.x, p0.y, p1.x, p1.y, counterclockwise)
    IN  ArcTangent(p0.x - arc.centerX, p0.y - arc.centerY, counterclockwise)

getArcEndTangent(p0, p1, counterclockwise) ==
    LET arc == calculateArcParams(p0.x, p0.y, p1.x, p1.y, counterclockwise)
    IN  ArcTangent(p1.x - arc.centerX, p1.y - arc.centerY, counterclockwise)

\* tangent of an interior vertex between two splines: incoming and outgoing
\* are normalize() results.  Math.hypot(blended) < 0.001 is decided on
\* |a/|a| + b/|b||^2 = 2 + 2 cos(phi): the directions point against each other
\* within 0.001 rad (10^6 cross^2 < |a|^2 |b|^2), or both are the zero vector.
BlendTangent(incoming, outgoing) ==
    LET ax == incoming.ax
        ay == incoming.ay
        bx == outgoing.ax
        by == outgoing.ay
        aZero == ax = 0 /\ ay = 0
        bZero == bx = 0 /\ by = 0
        dot == ax * bx + ay * by
        cross == Cross(ax, ay, bx, by)
        cusp == \/ aZero /\ bZero
                \/ /\ ~aZero /\ ~bZero /\ dot < 0
                   /\ 1000000 * cross * cross < (ax * ax + ay * ay) * (bx * bx + by * by)
    IN  IF cusp THEN [ax |-> -ay, ay |-> ax, bx |-> 0, by |-> 0]
        ELSE IF bZero \/ incoming = outgoing THEN incoming
        ELSE IF aZero THEN outgoing
        ELSE [ax |-> ax, ay |-> ay, bx |-> bx, by |-> by]

\* one iteration of the second loop of buildSegments: the tangent at vertex i
\* (1-based); info is the finished segmentInfo
VertexTangent(pts, i, info, u) ==
    LET n == Len(pts)
        closed == isClosedPath(pts, u)
        prev == IF i > 1 THEN <<pts[i - 1]>> ELSE IF closed THEN <<pts[n - 1]>> ELSE << >>
        curr == pts[i]
        next == IF i < n THEN <<pts[i + 1]>> ELSE IF closed THEN <<pts[2]>> ELSE << >>
        prevSeg == IF i > 1 THEN <<info[i - 1]>> ELSE << >>
        nextSeg == IF i <= Len(info) THEN <<info[i]>> ELSE << >>
        prevHasFixed == prevSeg # << >> /\ hasFixedTangent(prevSeg[1].type)
        nextHasFixed == nextSeg # << >> /\ hasFixedTangent(nextSeg[1].type)
    IN  IF prevHasFixed THEN
            IF prevSeg[1].type = "H" THEN getHorizontalTangent(pts[i - 1], curr)
            ELSE IF prevSeg[1].type = "V" THEN getVerticalTangent(pts[i - 1], curr)
            ELSE getArcEndTangent(pts[i - 1], curr, prevSeg[1].counterclockwise)
        ELSE IF nextHasFixed /\ next # << >> THEN
            IF nextSeg[1].type = "H" THEN getHorizontalTangent(curr, next[1])
            ELSE IF nextSeg[1].type = "V" THEN getVerticalTangent(curr, next[1])
            ELSE getArcStartTangent(curr, next[1], nextSeg[1].counterclockwise)
        ELSE IF prev = << >> /\ next # << >> THEN
            normalize(next[1].x - curr.x, next[1].y - curr.y)
        ELSE IF prev # << >> /\ next = << >> THEN
            normalize(curr.x - prev[1].x, curr.y - prev[1].y)
        ELSE IF prev # << >> /\ next # << >> THEN
            BlendTangent(normalize(curr.x - prev[1].x, curr.y - prev[1].y),
                         normalize(next[1].x - curr.x, next[1].y - curr.y))
        ELSE normalize(1, 0)

\* the local tangents of buildSegments when it returns
buildTangents(points, t) ==
    LET pts == [i \in 1..Len(points) |-> toCanvasPoint(t, points[i])]
        info == buildSegmentInfo(points, t)
    IN  IF Len(pts) < 2 THEN << >>
        ELSE [i \in 1..Len(pts) |-> VertexTangent(pts, i, info, t.sd)]

\* A control point is kept as [p, t, sign, lenSq]: the point p moved along the
\* tangent t by sign * 0.4 * sqrt(lenSq), lenSq the squared length of the
\* segment (over u^2).  An arc's control points are its own endpoints.
ControlPoint(p, tangent, sign, lenSq) ==
    [p |-> p, t |-> tangent, sign |-> sign, lenSq |-> lenSq]

\* buildSegments numbering its segments from 1
buildSegmentsFromOne(points, t) ==
    LET pts == [i \in 1..Len(points) |-> toCanvasPoint(t, points[i])]
        info == buildSegmentInfo(points, t)
        tangents == buildTangents(points, t)
    IN  [i \in 1..Len(info) |->
            LET p0 == pts[i]
                p1 == pts[i + 1]
                lenSq == (p1.x - p0.x) * (p1.x - p0.x) + (p1.y - p0.y) * (p1.y - p0.y)
            IN  [segmentIndex |-> i,
                 p0 |-> p0,
                 p1 |-> p1,
                 cp1 |-> IF info[i].type = "A" THEN ControlPoint(p0, normalize(0, 0), 1, 0)
                         ELSE ControlPoint(p0, tangents[i], 1, lenSq),
                 cp2 |-> IF info[i].type = "A" THEN ControlPoint(p1, normalize(0, 0), 1, 0)
                         ELSE ControlPoint(p1, tangents[i + 1], -1, lenSq),
                 isCircularArc |-> info[i].type = "A",
                 arcTurnsCounterclockwise |-> info[i].type = "A" /\ info[i].counterclockwise]]

\* segment-builder.ts buildSegments: one segment per consecutive point pair.
\* arcTurnsCounterclockwise is absent (read as false) on a segment that is no arc.
buildSegments(points, t) ==
    LET pts == [i \in 1..Len(points) |-> toCanvasPoint(t, points[i])]
        info == buildSegmentInfo(points, t)
        tangents == buildTangents(points, t)
    IN  [i \in 1..Len(info) |->
            LET p0 == pts[i]
                p1 == pts[i + 1]
                lenSq == (p1.x - p0.x) * (p1.x - p0.x) + (p1.y - p0.y) * (p1.y - p0.y)
            IN  [segmentIndex |-> i - 1,
                 p0 |-> p0,
                 p1 |-> p1,
                 cp1 |-> IF info[i].type = "A" THEN ControlPoint(p0, normalize(0, 0), 1, 0)
                         ELSE ControlPoint(p0, tangents[i], 1, lenSq),
                 cp2 |-> IF info[i].type = "A" THEN ControlPoint(p1, normalize(0, 0), 1, 0)
                         ELSE ControlPoint(p1, tangents[i + 1], -1, lenSq),
                 isCircularArc |-> info[i].type = "A",
                 arcTurnsCounterclockwise |-> info[i].type = "A" /\ info[i].counterclockwise]]

----------------------------------------------------------------------------
(* Netlist text: paths.ts generateNetlist *)

RECURSIVE Spaces(_)
Spaces(n) == IF n <= 0 THEN "" ELSE " " \o Spaces(n - 1)

\* String.prototype.padStart(w, ' ') and padEnd(w, ' ')
padStart(s, w) == Spaces(w - Len(s)) \o s
padEnd(s, w) == s \o Spaces(w - Len(s))

\* one pushed line of generateNetlist, as the tuple of the fields its template
\* prints in order; the fixed punctuation between them is left out
NetlistLine(seg) ==
    << padStart(ToString(seg.segmentNumber), 2),
       padStart(ToString(seg.angle), 4),
       padEnd(seg.lineType, 4),
       padStart(ToString(seg.entryAngle), 4),
       padStart(ToString(seg.xStart), 2),
       padStart(ToString(seg.yStart), 2),
       padStart(ToString(seg.xEnd), 2),
       padStart(ToString(seg.yEnd), 2),
       padStart(ToString(seg.exitAngle), 4) >>

\* the empty string pushed between paths
BlankLine == << >>

\* the loop over paths of generateNetlist: lines pushed so far and the counter
RECURSIVE NetlistLoop(_, _, _, _)
NetlistLoop(ps, k, lines, globalSegmentNumber) ==
    IF k > Len(ps) THEN lines
    ELSE LET segs == buildNetlistSegments(ps[k], globalSegmentNumber)
             rows == [i \in 1..Len(segs) |-> NetlistLine(segs[i])]
         IN  NetlistLoop(ps, k + 1, (lines \o rows) \o <<BlankLine>>,
                         globalSegmentNumber + Len(segs))

\* paths.ts generateNetlist: the returned text, split at "\n"
generateNetlist(ps) ==
    LET lines == NetlistLoop(ps, 1, << >>, 1)
    IN  IF Len(lines) > 0 /\ lines[Len(lines)] = BlankLine
        THEN SubSeq(lines, 1, Len(lines) - 1)
        ELSE lines

----------------------------------------------------------------------------
(* Design strings: encodeDesign / decodeDesign (app) and decodeDesignFromUrl *)
(* (paths.ts).  A string is a Seq of one-character strings.  Icons, the part *)
(* of a path string after "!", do not touch the points and are left out of   *)
(* the decoded value, as is the generated id of a path.                      *)

base62 ==
    << "0", "1", "2", "3", "4", "5", "6", "7", "8", "9",
       "A", "B", "C", "D", "E", "F", "G", "H", "I", "J", "K", "L", "M",
       "N", "O", "P", "Q", "R", "S", "T", "U", "V", "W", "X", "Y", "Z",
       "a", "b", "c", "d", "e", "f", "g", "h", "i", "j", "k", "l", "m",
       "n", "o", "p", "q", "r", "s", "t", "u", "v", "w", "x", "y", "z" >>

GRID_SIZE == 25

\* String.prototype.indexOf on base62: 0-based position, -1 when absent
indexOf(c) ==
    IF \E i \in 1..Len(base62) : base62[i] = c
    THEN (CHOOSE i \in 1..Len(base62) : base62[i] = c) - 1
    ELSE -1

\* pointToIndex with the coordinates exchanged
pointToIndexSlip(pt) == pt.x * GRID_SIZE + pt.y

pointToIndex(pt) == pt.y * GRID_SIZE + pt.x

indexToBase62(n) == << base62[(n \div 62) + 1], base62[(n % 62) + 1] >>

base62ToIndex(s) ==
    IF Len(s) # 2 THEN -1 ELSE indexOf(s[1]) * 62 + indexOf(s[2])

indexToPoint(n) == [x |-> n % GRID_SIZE, y |-> n \div GRID_SIZE]

\* Array.prototype.join(sep) of a Seq of strings, String.prototype.split(sep)
RECURSIVE Join(_, _)
Join(strs, sep) ==
    IF Len(strs) = 0 THEN << >>
    ELSE IF Len(strs) = 1 THEN strs[1]
    ELSE (strs[1] \o <<sep>>) \o Join(Tail(strs), sep)

RECURSIVE Split(_, _)
Split(str, sep) ==
    IF \A i \in 1..Len(str) : str[i] # sep THEN <<str>>
    ELSE LET i == CHOOSE j \in 1..Len(str) :
                      str[j] = sep /\ \A k \in 1..(j - 1) : str[k] # sep
         IN  <<SubSeq(str, 1, i - 1)>> \o Split(SubSeq(str, i + 1, Len(str)), sep)

RECURSIVE Flatten(_)
Flatten(strs) == IF Len(strs) = 0 THEN << >> ELSE strs[1] \o Flatten(Tail(strs))

\* encodeDesign of the app, for paths without icons
encodeDesign(ps) ==
    Join([k \in 1..Len(ps) |->
              Flatten([i \in 1..Len(ps[k]) |-> indexToBase62(pointToIndex(ps[k][i]))])],
         ",")

\* the loop over the pairs of a points string (i is 1-based)
RECURSIVE DecodePairs(_, _, _)
DecodePairs(pointsStr, i, points) ==
    IF i > Len(pointsStr) THEN points
    ELSE LET pair == SubSeq(pointsStr, i, i + 1)
             index == base62ToIndex(pair)
         IN  DecodePairs(pointsStr, i + 2,
                 IF index >= 0 /\ index < GRID_SIZE * GRID_SIZE
                 THEN Append(points, indexToPoint(index))
                 ELSE points)

\* the loop over the path strings shared by the two decoders
RECURSIVE DecodePathStrings(_, _, _)
DecodePathStrings(pathStrings, k, out) ==
    IF k > Len(pathStrings) THEN out
    ELSE LET pointsStr == Split(pathStrings[k], "!")[1]
             points == DecodePairs(pointsStr, 1, << >>)
         IN  IF Len(pointsStr) % 2 # 0 THEN DecodePathStrings(pathStrings, k + 1, out)
             ELSE DecodePathStrings(pathStrings, k + 1,
                      IF Len(points) >= 2 THEN Append(out, points) ELSE out)

\* encoded.split(',').filter(s => s.length > 0)
PathStrings(str) == SelectSeq(Split(str, ","), LAMBDA part : Len(part) > 0)

\* decodeDesign of the app: nothing in its try block throws, so it returns paths
decodeDesign(str) == DecodePathStrings(PathStrings(str), 1, << >>)

\* paths.ts decodeDesignFromUrl
decodeDesignFromUrl(str) == DecodePathStrings(PathStrings(str), 1, << >>)

----------------------------------------------------------------------------
(* Design strings with icons.  A path is [points, icons]; Path.icons, a Map, *)
(* is the Seq of its entries [index, icon] in insertion order on the way in  *)
(* and the set of its entries on the way out.                                *)

\* iconToChar[iconType] and charToIcon[iconChar]: <<value>>, or << >> for undefined
iconToChar(iconType) ==
    CASE iconType = "play" -> <<"P">>
      [] iconType = "fastforward" -> <<"F">>
      [] iconType = "stop" -> <<"S">>
      [] iconType = "caution" -> <<"C">>
      [] iconType = "circle" -> <<"O">>
      [] iconType = "square" -> <<"Q">>
      [] OTHER -> << >>

charToIcon(iconChar) ==
    CASE iconChar = "P" -> <<"play">>
      [] iconChar = "F" -> <<"fastforward">>
      [] iconChar = "S" -> <<"stop">>
      [] iconChar = "C" -> <<"caution">>
      [] iconChar = "O" -> <<"circle">>
      [] iconChar = "Q" -> <<"square">>
      [] OTHER -> << >>

\* base62[idx] in a string concatenation: past the end of the string the
\* value is undefined, which concatenates as the text "undefined"
Base62Char(idx) ==
    IF idx >= 0 /\ idx < Len(base62) THEN <<base62[idx + 1]>>
    ELSE <<"u", "n", "d", "e", "f", "i", "n", "e", "d">>

\* the loop over path.icons in encodeDesign
RECURSIVE EncodeIcons(_, _)
EncodeIcons(entries, i) ==
    IF i > Len(entries) THEN << >>
    ELSE (IF iconToChar(entries[i].icon) # << >>
          THEN Base62Char(entries[i].index) \o iconToChar(entries[i].icon)
          ELSE << >>) \o EncodeIcons(entries, i + 1)

\* the callback of this.paths.map in encodeDesign
EncodePath(path) ==
    Flatten([i \in 1..Len(path.points) |-> indexToBase62(pointToIndex(path.points[i]))])
        \o (IF Len(path.icons) > 0 THEN <<"!">> \o EncodeIcons(path.icons, 1) ELSE << >>)

\* encodeDesign of the app, for paths with icons
encodeDesignIcons(ps) == Join([k \in 1..Len(ps) |-> EncodePath(ps[k])], ",")

\* Map.prototype.set on a set of entries
MapSet(m, idx, iconType) ==
    {e \in m : e.index # idx} \cup {[index |-> idx, icon |-> iconType]}

\* the loop over the pairs of an icons string (i is 1-based); a last odd
\* character has no icon character
RECURSIVE DecodeIcons(_, _, _, _)
DecodeIcons(iconsStr, i, pointCount, m) ==
    IF i > Len(iconsStr) THEN m
    ELSE LET pointIdx == indexOf(iconsStr[i])
             iconType == IF i + 1 > Len(iconsStr) THEN << >> ELSE charToIcon(iconsStr[i + 1])
         IN  DecodeIcons(iconsStr, i + 2, pointCount,
                 IF pointIdx >= 0 /\ pointIdx < pointCount /\ iconType # << >>
                 THEN MapSet(m, pointIdx, iconType[1])
                 ELSE m)

\* the icons of a path string: iconsStr is <<string>>, or << >> for undefined
IconsOf(iconsStr, pointCount) ==
    IF iconsStr # << >> /\ Len(iconsStr[1]) >= 2
    THEN DecodeIcons(iconsStr[1], 1, pointCount, {})
    ELSE {}

\* const [pointsStr, iconsStr] = pathStr.split('!') in decodeDesign, and
\* parts.slice(1).join('') in decodeDesignFromUrl
SecondPart(pathStr) ==
    LET parts == Split(pathStr, "!") IN IF Len(parts) > 1 THEN <<parts[2]>> ELSE << >>

RestParts(pathStr) ==
    LET parts == Split(pathStr, "!")
    IN  IF Len(parts) > 1 THEN <<Flatten(Tail(parts))>> ELSE << >>

\* the loop over the pairs of a points string, pair by pair without recursion
\* (for long paths): the points of the valid pairs, in order
PairAt(pointsStr, j) ==
    IF 2 * j <= Len(pointsStr) THEN <<pointsStr[2 * j - 1], pointsStr[2 * j]>>
    ELSE <<pointsStr[2 * j - 1]>>

ValidPair(pair) ==
    base62ToIndex(pair) >= 0 /\ base62ToIndex(pair) < GRID_SIZE * GRID_SIZE

DecodePoints(pointsStr) ==
    LET pairs == [j \in 1..((Len(pointsStr) + 1) \div 2) |-> PairAt(pointsStr, j)]
        valid == SelectSeq(pairs, ValidPair)
    IN  [j \in 1..Len(valid) |-> indexToPoint(base62ToIndex(valid[j]))]

\* the loop over the path strings; fromUrl says which decoder runs
RECURSIVE DecodePathsIcons(_, _, _, _)
DecodePathsIcons(pathStrings, k, out, fromUrl) ==
    IF k > Len(pathStrings) THEN out
    ELSE LET pointsStr == Split(pathStrings[k], "!")[1]
             points == DecodePoints(pointsStr)
             iconsStr == IF fromUrl THEN RestParts(pathStrings[k])
                         ELSE SecondPart(pathStrings[k])
             path == [points |-> points, icons |-> IconsOf(iconsStr, Len(points))]
         IN  IF Len(pointsStr) % 2 # 0
             THEN DecodePathsIcons(pathStrings, k + 1, out, fromUrl)
             ELSE DecodePathsIcons(pathStrings, k + 1,
                      IF Len(points) >= 2 THEN Append(out, path) ELSE out, fromUrl)

\* decodeDesign of the app and decodeDesignFromUrl of paths.ts, with the icons
decodeDesignIcons(str) == DecodePathsIcons(PathStrings(str), 1, << >>, FALSE)
decodeDesignFromUrlIcons(str) == DecodePathsIcons(PathStrings(str), 1, << >>, TRUE)

----------------------------------------------------------------------------
(* The editor: LineFollowerApp (app) and the click dispatch of CanvasView.    *)
(* Path ids are numbers; generateId() returns an id that nothing refers to.  *)
(* pointIndex and segmentIndex are 0-based as in the source.                 *)

\* SelectionState; the fields a kind does not have hold a filler
NoPoint == Pt(-1, -1)
SelNone == [kind |-> "none", pathId |-> 0, endpoint |-> "", index |-> -1, point |-> NoPoint]
SelFloating(p) == [SelNone EXCEPT !.kind = "floating-point", !.point = p]
SelPath(id, e) == [SelNone EXCEPT !.kind = "path", !.pathId = id, !.endpoint = e]
SelSegment(id, k) == [SelNone EXCEPT !.kind = "segment", !.pathId = id, !.index = k]
SelPoint(id, i) == [SelNone EXCEPT !.kind = "point", !.pathId = id, !.index = i]

\* this.paths.find(p => p.id === id): << >> or <<position in the list>>
FindPath(ps, id) ==
    IF \E k \in 1..Len(ps) : ps[k].id = id
    THEN <<CHOOSE k \in 1..Len(ps) : ps[k].id = id /\ \A j \in 1..(k - 1) : ps[j].id # id>>
    ELSE << >>

\* this.paths.filter(p => p.id !== id)
WithoutPath(ps, id) == SelectSeq(ps, LAMBDA q : q.id # id)

\* ids something still refers to
UsedIds ==
    {appPaths[k].id : k \in 1..Len(appPaths)} \cup {selection.pathId}
        \cup {pendingPointClick[i].pathId : i \in 1..Len(pendingPointClick)}
        \cup {draggedPoint[i].pathId : i \in 1..Len(draggedPoint)}

\* generateId(): the n-th of the ids nothing refers to
RECURSIVE FreshFrom(_, _)
FreshFrom(id, n) ==
    IF id \in UsedIds THEN FreshFrom(id + 1, n)
    ELSE IF n = 1 THEN id ELSE FreshFrom(id + 1, n - 1)

generateId(n) == FreshFrom(1, n)

AppPointCount ==
    LET RECURSIVE Sum(_)
        Sum(k) == IF k = 0 THEN 0 ELSE Len(appPaths[k].points) + Sum(k - 1)
    IN  Sum(Len(appPaths))

\* A pointer location is what the hit tests make of it: near is the grid point
\* within 12 px (<<p>>, or << >>), onPoint says that it is within the
\* tolerance of pickGridPoint (10 px at the default spacing), segment is the
\* hit pickSegment returns (<<[pathId, segmentIndex]>> or << >>; its tolerance
\* is 15 px or more, so a location near a vertex of a path hits a segment).
SegmentHits ==
    UNION {{[pathId |-> appPaths[k].id, segmentIndex |-> i] :
               i \in 0..(Len(appPaths[k].points) - 2)} : k \in 1..Len(appPaths)}

LocationsOn(grid) ==
    {loc \in [near : {<< >>} \cup {<<p>> : p \in grid},
              onPoint : BOOLEAN,
              segment : {<< >>} \cup {<<h>> : h \in SegmentHits}] :
        /\ loc.onPoint => loc.near # << >>
        /\ (/\ loc.near # << >>
            /\ \E k \in 1..Len(appPaths) : \E i \in 1..Len(appPaths[k].points) :
                   /\ appPaths[k].points[i] = loc.near[1]
                   /\ Len(appPaths[k].points) >= 2)
              => loc.segment # << >>}

Locations == LocationsOn(AppGridPoints)

\* canvas.ts pickGridPoint and pickSegment at a location
pickGridPoint(loc) == IF loc.onPoint THEN loc.near ELSE << >>
pickSegment(loc) == loc.segment

\* path.points.findIndex(p => dist < 12), 0-based, -1 when no point is near
FindIndexNear(points, loc) ==
    IF loc.near # << >> /\ \E i \in 1..Len(points) : points[i] = loc.near[1]
    THEN (CHOOSE i \in 1..Len(points) :
              points[i] = loc.near[1] /\ \A j \in 1..(i - 1) : points[j] # loc.near[1]) - 1
    ELSE -1

\* CanvasView.buildingPath, set by every render from the selection
buildingPath == selection.kind \in {"path", "floating-point"}

\* the handlers below change appPaths, selection, draggedPoint and lastHandler

\* handlePointClick with unshift and push exchanged
handlePointClickSlip(point) ==
    /\ lastHandler' = "handlePointClick"
    /\ draggedPoint' = draggedPoint
    /\ IF selection.kind = "floating-point" THEN
           /\ AppPointCount + 2 <= MaxAppPoints
           /\ appPaths' = Append(appPaths,
                  [id |-> generateId(1), points |-> <<selection.point, point>>])
           /\ selection' = SelPath(generateId(1), "end")
       ELSE IF selection.kind = "path" THEN
           LET f == FindPath(appPaths, selection.pathId)
           IN  IF f = << >> THEN UNCHANGED <<appPaths, selection>>
               ELSE /\ AppPointCount + 1 <= MaxAppPoints
                    /\ appPaths' = [appPaths EXCEPT ![f[1]].points =
                           IF selection.endpoint = "end" THEN <<point>> \o @
                           ELSE Append(@, point)]
                    /\ selection' = selection
       ELSE IF selection.kind = "point" /\ FindPath(appPaths, selection.pathId) = << >> THEN
           UNCHANGED <<appPaths, selection>>
       ELSE IF selection.kind = "point"
               /\ selection.index
                    = Len(appPaths[FindPath(appPaths, selection.pathId)[1]].points) - 1 THEN
           /\ AppPointCount + 1 <= MaxAppPoints
           /\ appPaths' = [appPaths EXCEPT
                  ![FindPath(appPaths, selection.pathId)[1]].points = Append(@, point)]
           /\ selection' = SelPath(selection.pathId, "end")
       ELSE IF selection.kind = "point" /\ selection.index = 0 THEN
           /\ AppPointCount + 1 <= MaxAppPoints
           /\ appPaths' = [appPaths EXCEPT
                  ![FindPath(appPaths, selection.pathId)[1]].points = <<point>> \o @]
           /\ selection' = SelPath(selection.pathId, "start")
       ELSE
           /\ appPaths' = appPaths
           /\ selection' = SelFloating(point)

\* app handlePointClick(point).  A step that would take the design beyond
\* MaxAppPoints points is left out of the model.
handlePointClick(point) ==
    /\ lastHandler' = "handlePointClick"
    /\ draggedPoint' = draggedPoint
    /\ IF selection.kind = "floating-point" THEN
           /\ AppPointCount + 2 <= MaxAppPoints
           /\ appPaths' = Append(appPaths,
                  [id |-> generateId(1), points |-> <<selection.point, point>>])
           /\ selection' = SelPath(generateId(1), "end")
       ELSE IF selection.kind = "path" THEN
           LET f == FindPath(appPaths, selection.pathId)
           IN  IF f = << >> THEN UNCHANGED <<appPaths, selection>>
               ELSE /\ AppPointCount + 1 <= MaxAppPoints
                    /\ appPaths' = [appPaths EXCEPT ![f[1]].points =
                           IF selection.endpoint = "end" THEN Append(@, point)
                           ELSE <<point>> \o @]
                    /\ selection' = selection
       ELSE IF selection.kind = "point" /\ FindPath(appPaths, selection.pathId) = << >> THEN
           UNCHANGED <<appPaths, selection>>
       ELSE IF selection.kind = "point"
               /\ selection.index
                    = Len(appPaths[FindPath(appPaths, selection.pathId)[1]].points) - 1 THEN
           /\ AppPointCount + 1 <= MaxAppPoints
           /\ appPaths' = [appPaths EXCEPT
                  ![FindPath(appPaths, selection.pathId)[1]].points = Append(@, point)]
           /\ selection' = SelPath(selection.pathId, "end")
       ELSE IF selection.kind = "point" /\ selection.index = 0 THEN
           /\ AppPointCount + 1 <= MaxAppPoints
           /\ appPaths' = [appPaths EXCEPT
                  ![FindPath(appPaths, selection.pathId)[1]].points = <<point>> \o @]
           /\ selection' = SelPath(selection.pathId, "start")
       ELSE
           /\ appPaths' = appPaths
           /\ selection' = SelFloating(point)

\* handleSegmentClick selecting the start point with the whole path
handleSegmentClickSlip(hit) ==
    /\ lastHandler' = "handleSegmentClick"
    /\ UNCHANGED <<appPaths, draggedPoint>>
    /\ selection' =
           IF /\ selection.kind = "segment"
              /\ selection.pathId = hit.pathId
              /\ selection.index = hit.segmentIndex
           THEN SelPath(hit.pathId, "start")
           ELSE IF selection.kind = "path" /\ selection.pathId = hit.pathId
           THEN SelNone
           ELSE SelSegment(hit.pathId, hit.segmentIndex)

\* app handleSegmentClick(hit)
handleSegmentClick(hit) ==
    /\ lastHandler' = "handleSegmentClick"
    /\ UNCHANGED <<appPaths, draggedPoint>>
    /\ selection' =
           IF /\ selection.kind = "segment"
              /\ selection.pathId = hit.pathId
              /\ selection.index = hit.segmentIndex
           THEN SelPath(hit.pathId, "end")
           ELSE IF selection.kind = "path" /\ selection.pathId = hit.pathId
           THEN SelNone
           ELSE SelSegment(hit.pathId, hit.segmentIndex)

\* app clearSelection
clearSelection ==
    /\ lastHandler' = "clearSelection"
    /\ selection' = SelNone
    /\ draggedPoint' = << >>
    /\ appPaths' = appPaths

\* app flipEndpoint
flipEndpoint ==
    /\ lastHandler' = "flipEndpoint"
    /\ UNCHANGED <<appPaths, draggedPoint>>
    /\ selection' =
           IF selection.kind # "path" THEN selection
           ELSE [selection EXCEPT !.endpoint = IF @ = "end" THEN "start" ELSE "end"]

\* Array.prototype.slice(from, to) and splice(index, 1) on a Seq, 0-based
Slice(points, from, to) == SubSeq(points, from + 1, to)
RemoveAt(points, index) ==
    IF index >= Len(points) THEN points
    ELSE SubSeq(points, 1, index) \o SubSeq(points, index + 2, Len(points))

\* deleteSegment keeping a piece of one point too
deleteSegmentSlip(ps, pathId, index) ==
    LET f == FindPath(ps, pathId)
    IN  IF f = << >> THEN ps
        ELSE IF Len(ps[f[1]].points) < 2 THEN ps
        ELSE LET points == ps[f[1]].points
                 left == Slice(points, 0, index + 1)
                 right == Slice(points, index + 1, Len(points))
                 updated ==
                     (IF Len(left) >= 1
                      THEN <<[id |-> generateId(1), points |-> left]>> ELSE << >>)
                     \o (IF Len(right) >= 1
                         THEN <<[id |-> generateId(2), points |-> right]>> ELSE << >>)
             IN  WithoutPath(ps, pathId) \o updated

\* app deleteSegment(pathId, index): the new value of this.paths
deleteSegment(ps, pathId, index) ==
    LET f == FindPath(ps, pathId)
    IN  IF f = << >> THEN ps
        ELSE IF Len(ps[f[1]].points) < 2 THEN ps
        ELSE LET points == ps[f[1]].points
                 left == Slice(points, 0, index + 1)
                 right == Slice(points, index + 1, Len(points))
                 updated ==
                     (IF Len(left) >= 2
                      THEN <<[id |-> generateId(1), points |-> left]>> ELSE << >>)
                     \o (IF Len(right) >= 2
                         THEN <<[id |-> generateId(2), points |-> right]>> ELSE << >>)
             IN  WithoutPath(ps, pathId) \o updated

\* app deleteSelection
deleteSelection ==
    /\ lastHandler' = "deleteSelection"
    /\ draggedPoint' = draggedPoint
    /\ IF selection.kind = "point" THEN
           LET f == FindPath(appPaths, selection.pathId)
               spliced == [appPaths EXCEPT ![f[1]].points = RemoveAt(@, selection.index)]
           IN  /\ appPaths' =
                      IF f = << >> THEN appPaths
                      ELSE IF Len(spliced[f[1]].points) < 2
                           THEN WithoutPath(spliced, selection.pathId)
                           ELSE spliced
               /\ selection' = SelNone
       ELSE IF selection.kind = "segment" THEN
           /\ appPaths' = deleteSegment(appPaths, selection.pathId, selection.index)
           /\ selection' = SelNone
       ELSE IF selection.kind = "path" THEN
           /\ appPaths' = WithoutPath(appPaths, selection.pathId)
           /\ selection' = SelNone
       ELSE UNCHANGED <<appPaths, selection>>

\* canvas.ts handleClick: the dispatch of a click to the app's callbacks
handleClick(loc) ==
    IF suppressNextClick THEN
        /\ suppressNextClick' = FALSE
        /\ UNCHANGED <<appPaths, selection, draggedPoint, lastHandler>>
    ELSE
        /\ suppressNextClick' = suppressNextClick
        /\ IF buildingPath /\ pickGridPoint(loc) # << >>
           THEN handlePointClick(pickGridPoint(loc)[1])
           ELSE IF pickSegment(loc) # << >> THEN handleSegmentClick(pickSegment(loc)[1])
           ELSE IF pickGridPoint(loc) # << >> THEN handlePointClick(pickGridPoint(loc)[1])
           ELSE clearSelection

\* app handleMouseDown at a location
handleMouseDown(loc) ==
    LET f == FindPath(appPaths, selection.pathId)
        pointIndex == IF f = << >> THEN -1 ELSE FindIndexNear(appPaths[f[1]].points, loc)
    IN  IF selection.kind \in {"segment", "point"} /\ pointIndex >= 0
        THEN /\ pendingPointClick' = <<[pathId |-> selection.pathId, pointIndex |-> pointIndex]>>
             /\ didDrag' = FALSE
             /\ suppressNextClick' = TRUE
        ELSE UNCHANGED <<pendingPointClick, didDrag, suppressNextClick>>

\* a filler for the holes of a sparse array (undefined)
Hole == NoPoint

\* points[index] = v in JavaScript: past the end the array grows, with holes
AssignAt(points, index, v) ==
    IF index < Len(points) THEN [points EXCEPT ![index + 1] = v]
    ELSE [i \in 1..(index + 1) |->
             IF i <= Len(points) THEN points[i] ELSE IF i = index + 1 THEN v ELSE Hole]


\* app handleMouseMove at a location; moved says that the pointer is more than
\* the drag threshold away from where it went down
handleMouseMove(loc, moved) ==
    LET starts == pendingPointClick # << >> /\ draggedPoint = << >> /\ moved
        dragged == IF starts THEN pendingPointClick ELSE draggedPoint
        point == pickGridPoint(loc)
        f == IF dragged = << >> THEN << >> ELSE FindPath(appPaths, dragged[1].pathId)
    IN  /\ draggedPoint' = dragged
        /\ didDrag' = (IF starts THEN TRUE ELSE didDrag)
        /\ IF dragged # << >> /\ point # << >> /\ f # << >>
           THEN /\ dragged[1].pointIndex < MaxAppPoints
                /\ appPaths' = [appPaths EXCEPT ![f[1]].points =
                                    AssignAt(@, dragged[1].pointIndex, point[1])]
                /\ AppPointCount' <= MaxAppPoints
           ELSE appPaths' = appPaths

\* app handleMouseUp
handleMouseUp ==
    /\ selection' =
           IF pendingPointClick # << >> /\ ~didDrag
           THEN SelPoint(pendingPointClick[1].pathId, pendingPointClick[1].pointIndex)
           ELSE selection
    /\ draggedPoint' = << >>
    /\ pendingPointClick' = << >>
    /\ didDrag' = FALSE

\* Math.round((a + b) / 2) for integers a and b: halves go up
RoundHalf(a, b) == (a + b + 1) \div 2

\* app addPointToSegment (the A key).  A step that would take the design
\* beyond MaxAppPoints points is left out of the model.
addPointToSegment ==
    LET f == FindPath(appPaths, selection.pathId)
        points == appPaths[f[1]].points
        segIdx == selection.index
        p0 == points[segIdx + 1]
        p1 == points[segIdx + 2]
        mid == Pt(RoundHalf(p0.x, p1.x), RoundHalf(p0.y, p1.y))
    IN  /\ lastHandler' = "addPointToSegment"
        /\ draggedPoint' = draggedPoint
        /\ IF selection.kind # "segment" \/ f = << >> THEN UNCHANGED <<appPaths, selection>>
           ELSE IF segIdx < 0 \/ segIdx >= Len(points) - 1 THEN UNCHANGED <<appPaths, selection>>
           ELSE IF mid = p0 \/ mid = p1 THEN UNCHANGED <<appPaths, selection>>
           ELSE /\ AppPointCount + 1 <= MaxAppPoints
                /\ appPaths' = [appPaths EXCEPT ![f[1]].points =
                       Slice(points, 0, segIdx + 1) \o <<mid>>
                           \o Slice(points, segIdx + 1, Len(points))]
                /\ selection' = SelPoint(selection.pathId, segIdx + 1)

\* app setPointIcon(pathId, pointIndex, icon): the new icon entries; icon is
\* <<type>>, or << >> for null.  Map.set replaces the entry of the index.
setPointIcon(pathId, pointIndex, icon) ==
    IF FindPath(appPaths, pathId) = << >> THEN icons
    ELSE {e \in icons : ~(e.pathId = pathId /\ e.pointIndex = pointIndex)}
             \cup {[pathId |-> pathId, pointIndex |-> pointIndex, icon |-> icon[i]] :
                      i \in 1..Len(icon)}

\* app handleContextMenu followed by the choice in the icon popup: the popup's
\* callback calls setPointIcon with the path and index of the selected point
handleContextMenu(icon) ==
    /\ selection.kind = "point"
    /\ FindPath(appPaths, selection.pathId) # << >>
    /\ icons' = setPointIcon(selection.pathId, selection.index, icon)

\* The icon map is a field of the path object: it goes with the object, to
\* whatever the handler makes of its points, and is gone with the object.
IconsOfLivePaths(ps) == {e \in icons : FindPath(ps, e.pathId) # << >>}

----------------------------------------------------------------------------
(* The drawing routes: what each strokes for the segments of one path.       *)
(* A command is [route, straightLineMode, segmentIndex, op].                 *)

Stroke(route, mode, seg, op) ==
    [route |-> route, straightLineMode |-> mode, segmentIndex |-> seg.segmentIndex, op |-> op]

\* canvas.ts paintPaths: the loop over the segments of a path
paintPaths(segs, straightLineMode) ==
    [i \in 1..Len(segs) |->
        Stroke("paintPaths", straightLineMode, segs[i],
               IF straightLineMode THEN "lineTo"
               ELSE IF segs[i].isCircularArc THEN "arc"
               ELSE "bezierCurveTo")]

\* canvas.ts paintSelection for a selection of kind segment: the highlight
\* over the segment found by its index (nothing when there is none); the
\* other kinds of selection stroke no segment
paintSelection(segs, sel, straightLineMode) ==
    IF sel.kind # "segment" THEN << >>
    ELSE IF \A i \in 1..Len(segs) : segs[i].segmentIndex # sel.index THEN << >>
    ELSE LET i == CHOOSE j \in 1..Len(segs) :
                      /\ segs[j].segmentIndex = sel.index
                      /\ \A h \in 1..(j - 1) : segs[h].segmentIndex # sel.index
         IN  <<Stroke("paintSelection", straightLineMode, segs[i], "bezierCurveTo")>>

\* app generateSVG: the path data of one path
generateSVG(segs) ==
    [i \in 1..Len(segs) |->
        Stroke("generateSVG", FALSE, segs[i], IF segs[i].isCircularArc THEN "A" ELSE "C")]

\* paths.ts renderPathsCurvedToCanvas (the test renderer) for one path
renderPathsCurvedToCanvas(points, segs, straightLineMode) ==
    IF Len(points) < 2 THEN << >>
    ELSE [i \in 1..Len(segs) |->
             Stroke("renderPathsCurvedToCanvas", straightLineMode, segs[i],
                    IF straightLineMode THEN "lineTo"
                    ELSE IF segs[i].isCircularArc THEN "arc"
                    ELSE "bezierCurveTo")]

\* the transforms of the canvas, of the SVG export and of the test renderer
CanvasTransform == [sn |-> 24, sd |-> 1, ox |-> 40, oy |-> 16]
SvgTransform == [sn |-> 2, sd |-> 1, ox |-> 0, oy |-> 0]

----------------------------------------------------------------------------
(* The maze generator (maze.ts).  Math.random is a tape of outcomes, in      *)
(* hundredths, that is fixed when generateMaze is called and read cyclically; *)
(* call k of a step of the generator reads the entry k places on.            *)

GRID_POINTS_X == gridPoints.x
GRID_POINTS_Y == gridPoints.y
TITLE_BOX_WIDTH == 5
TITLE_BOX_HEIGHT == 3

\* the outcome of Math.random() of call k of the step, in hundredths
R(k) == rand.tape[((rand.pos + k) % Len(rand.tape)) + 1]

\* Math.floor(Math.random() * n) and Math.random() < pct / 100 for call k
RandomInt(k, n) == (R(k) * n) \div 100
RandomBelow(k, pct) == R(k) < pct

isInBounds(p) == p.x >= 0 /\ p.x < GRID_POINTS_X /\ p.y >= 0 /\ p.y < GRID_POINTS_Y

isInTitleBox(p) ==
    LET titleBoxStartX == GRID_POINTS_X - TITLE_BOX_WIDTH - 1
        titleBoxStartY == GRID_POINTS_Y - TITLE_BOX_HEIGHT - 1
    IN  p.x >= titleBoxStartX /\ p.y >= titleBoxStartY

MinOf(a, b) == IF a < b THEN a ELSE b
MaxOf(a, b) == IF a > b THEN a ELSE b

\* the keys of a diagonal move in its cell: [x, y, slash]
IsSlash(from, to) ==
    (from.x < to.x /\ from.y > to.y) \/ (from.x > to.x /\ from.y < to.y)

arcCellKey(from, to) ==
    [x |-> MinOf(from.x, to.x), y |-> MinOf(from.y, to.y), slash |-> IsSlash(from, to)]

\* the key of the same diagonal, where the opposite one is meant
conflictingArcKeySlip(from, to) == arcCellKey(from, to)

conflictingArcKey(from, to) ==
    [x |-> MinOf(from.x, to.x), y |-> MinOf(from.y, to.y), slash |-> ~IsSlash(from, to)]

\* MazeState
EmptyMazeState == [usedPoints |-> {}, usedArcs |-> {}]

canMoveTo(from, to, state, allowRevisit) ==
    IF ~isInBounds(to) THEN FALSE
    ELSE IF isInTitleBox(to) THEN FALSE
    ELSE IF ~allowRevisit /\ to \in state.usedPoints THEN FALSE
    ELSE IF to.x - from.x # 0 /\ to.y - from.y # 0
    THEN ~(arcCellKey(from, to) \in state.usedArcs
             \/ conflictingArcKey(from, to) \in state.usedArcs)
    ELSE TRUE

\* addPoint(p, from, state): the state after it; from is <<point>>, or << >> for null
addPoint(p, from, state) ==
    [usedPoints |-> state.usedPoints \cup {p},
     usedArcs |-> IF from # << >> /\ p.x - from[1].x # 0 /\ p.y - from[1].y # 0
                  THEN state.usedArcs \cup {arcCellKey(from[1], p)}
                  ELSE state.usedArcs]

getDelta(dir) ==
    CASE dir = "up" -> [dx |-> 0, dy |-> -1]
      [] dir = "down" -> [dx |-> 0, dy |-> 1]
      [] dir = "left" -> [dx |-> -1, dy |-> 0]
      [] dir = "right" -> [dx |-> 1, dy |-> 0]

IsVertical(dir) == dir \in {"up", "down"}

\* addStraightRun: [path, state, added] after it.  The moves of a run are
\* along an axis, so whether one is allowed depends on the points used
\* before the run only: the run ends before the first point that is not.
addStraightRun(path, state, dx, dy, length) ==
    LET current == path[Len(path)]
        At(i) == Pt(current.x + i * dx, current.y + i * dy)
        Free(n) == \A i \in 1..n : canMoveTo(At(i - 1), At(i), state, FALSE)
        added == CHOOSE n \in 0..length :
                     Free(n) /\ (n = length \/ ~canMoveTo(At(n), At(n + 1), state, FALSE))
    IN  [path |-> path \o [i \in 1..added |-> At(i)],
         state |-> [state EXCEPT !.usedPoints = @ \cup {At(i) : i \in 1..added}],
         added |-> added]

\* addCornerTurn: [path, state, ok] after it
addCornerTurn(path, state, fromDir, toDir) ==
    LET current == path[Len(path)]
        arcDx == getDelta(fromDir).dx + getDelta(toDir).dx
        arcDy == getDelta(fromDir).dy + getDelta(toDir).dy
        next == Pt(current.x + arcDx, current.y + arcDy)
    IN  IF arcDx = 0 \/ arcDy = 0 THEN [path |-> path, state |-> state, ok |-> FALSE]
        ELSE IF ~canMoveTo(current, next, state, FALSE)
        THEN [path |-> path, state |-> state, ok |-> FALSE]
        ELSE [path |-> Append(path, next), state |-> addPoint(next, <<current>>, state),
              ok |-> TRUE]

\* getPerpendicularDirs with call k of the step
getPerpendicularDirs(dir, k) ==
    IF IsVertical(dir)
    THEN (IF RandomBelow(k, 50) THEN <<"left", "right">> ELSE <<"right", "left">>)
    ELSE (IF RandomBelow(k, 50) THEN <<"up", "down">> ELSE <<"down", "up">>)

\* the first of the directions dirs (from index i on) that addCornerTurn takes
\* from fromDir: [path, state, ok, dir]
RECURSIVE FirstTurn(_, _, _, _, _)
FirstTurn(path, state, fromDir, dirs, i) ==
    IF i > Len(dirs) THEN [path |-> path, state |-> state, ok |-> FALSE, dir |-> fromDir]
    ELSE LET turn == addCornerTurn(path, state, fromDir, dirs[i])
         IN  IF turn.ok THEN [path |-> turn.path, state |-> turn.state, ok |-> TRUE,
                              dir |-> dirs[i]]
             ELSE FirstTurn(path, state, fromDir, dirs, i + 1)

\* the loop over the turns of generateBranch, from turn t on; turn t reads the
\* calls k + 2 * t and k + 2 * t + 1 of the step
RECURSIVE BranchTurns(_, _, _, _, _, _)
BranchTurns(path, state, currentDir, t, numTurns, k) ==
    IF t >= numTurns THEN [path |-> path, state |-> state]
    ELSE LET turn == FirstTurn(path, state, currentDir,
                               getPerpendicularDirs(currentDir, k + 2 * t), 1)
             nextLen == 5 + RandomInt(k + 2 * t + 1, 5)
             run == addStraightRun(turn.path, turn.state, getDelta(turn.dir).dx,
                                   getDelta(turn.dir).dy, nextLen)
         IN  IF ~turn.ok THEN [path |-> path, state |-> state]
             ELSE BranchTurns(run.path, run.state, turn.dir, t + 1, numTurns, k)

\* generateBranch(start, state, direction): [path, state]; the random calls
\* are the calls k, k + 1, ... of the step
generateBranch(start, state, direction, k) ==
    LET firstLen == 6 + RandomInt(k, 7)
        first == addStraightRun(<<start>>, state, getDelta(direction).dx,
                                getDelta(direction).dy, firstLen)
        numTurns == 2 + RandomInt(k + 1, 3)
        turns == BranchTurns(first.path, first.state, direction, 0, numTurns, k + 2)
    IN  IF Len(first.path) < 3 THEN [path |-> << >>, state |-> first.state]
        ELSE [path |-> IF Len(turns.path) >= 5 THEN turns.path ELSE << >>,
              state |-> turns.state]

\* pickEdgeStart(edge, state): <<point>>, or << >> for null; attempt i reads
\* call k + i of the step
EdgePoint(edge, k) ==
    CASE edge = "left" -> Pt(0, 2 + RandomInt(k, GRID_POINTS_Y - 4))
      [] edge = "right" -> Pt(GRID_POINTS_X - 1, 2 + RandomInt(k, GRID_POINTS_Y - 4))
      [] edge = "top" -> Pt(2 + RandomInt(k, GRID_POINTS_X - 4), 0)
      [] edge = "bottom" -> Pt(2 + RandomInt(k, GRID_POINTS_X - 4), GRID_POINTS_Y - 1)

pickEdgeStart(edge, state, k) ==
    LET attempts == 20
        Good(i) == EdgePoint(edge, k + i) \notin state.usedPoints
                       /\ ~isInTitleBox(EdgePoint(edge, k + i))
    IN  IF \E i \in 0..(attempts - 1) : Good(i)
        THEN <<EdgePoint(edge, k + (CHOOSE i \in 0..(attempts - 1) :
                                        Good(i) /\ \A j \in 0..(i - 1) : ~Good(j)))>>
        ELSE << >>

\* the generator before generateMaze is called; its fields are the local
\* variables of the generator functions (dir "" is null)
GenIdle ==
    [pc |-> "idle", stage |-> 0, ret |-> "", state |-> EmptyMazeState, path |-> << >>,
     dir |-> "", totalAdded |-> 0, iter |-> 0, target |-> 0, made |-> << >>,
     pool |-> << >>, dirs |-> << >>, count |-> 0, i |-> 0, merge |-> Pt(0, 0),
     rowSpacing |-> 0, movingRight |-> TRUE, row |-> 0, maxRows |-> 0]

\* a.slice(from, -back) and a.splice(idx, 1) of JavaScript on a Seq
SliceBack(a, from, back) ==
    IF Len(a) - back <= from THEN << >> ELSE SubSeq(a, from + 1, Len(a) - back)

\* a.filter((_, i) => i % 5 === 0)
EveryFifth(a) == [j \in 1..((Len(a) + 4) \div 5) |-> a[5 * (j - 1) + 1]]

\* the step read n outcomes of Math.random
Advance(n) == rand' = [rand EXCEPT !.pos = (@ + n) % Len(rand.tape)]

\* paths.push({ id, points }) when the path has at least least points
PushIf(ps, path, least) == IF Len(path) >= least THEN Append(ps, path) ELSE ps

\* generateMeanderingPath up to its loop, called by the function that goes on
\* at pc ret, stage
StartMeander(g, start, initialDir, targetLength, ret, stage) ==
    [g EXCEPT !.pc = "meander", !.ret = ret, !.stage = stage,
              !.path = <<start>>, !.state = addPoint(start, << >>, g.state),
              !.dir = initialDir, !.totalAdded = 0, !.iter = 0, !.target = targetLength]

\* return generateFlowingMazeInternal(): a new state and a new paths list
Fallback ==
    /\ gen' = [GenIdle EXCEPT !.pc = "flowing"]
    /\ mazePaths' = << >>

\* generateMaze(type) on a board, with the outcomes of Math.random for the run
GenerateMaze(type, board, tape) ==
    /\ gen.pc = "idle"
    /\ gridPoints' = board
    /\ rand' = [tape |-> tape, pos |-> 0]
    /\ gen' = [GenIdle EXCEPT !.pc = type]
    /\ mazePaths' = << >>
    /\ UNCHANGED <<geomVars, codecVars, appVars, drawVars, iconVars, designVars>>

\* one iteration of the loop of generateMeanderingPath, or its end
MeanderStep ==
    /\ gen.pc = "meander"
    /\ IF ~(gen.iter < 120 /\ gen.totalAdded < gen.target)
       THEN gen' = [gen EXCEPT !.pc = gen.ret]
       ELSE LET straightLen == 5 + RandomInt(0, 6)
                run == addStraightRun(gen.path, gen.state, getDelta(gen.dir).dx,
                                      getDelta(gen.dir).dy, straightLen)
                turn == FirstTurn(run.path, run.state, gen.dir,
                                  getPerpendicularDirs(gen.dir, 1), 1)
                turns == run.added = 0 \/ run.added < straightLen \/ RandomBelow(2, 40)
            IN  gen' = [gen EXCEPT
                    !.path = IF turns THEN turn.path ELSE run.path,
                    !.state = IF turns THEN turn.state ELSE run.state,
                    !.dir = IF turns THEN turn.dir ELSE gen.dir,
                    !.totalAdded = @ + run.added + (IF turns /\ turn.ok THEN 1 ELSE 0),
                    !.iter = @ + 1,
                    !.pc = IF run.added = 0 /\ ~turn.ok THEN gen.ret ELSE "meander"]
    /\ Advance(3)
    /\ UNCHANGED <<gridPoints, mazePaths, geomVars, codecVars, appVars, drawVars, iconVars, designVars>>

\* generateFlowingMazeInternal between its calls of generateMeanderingPath
\* and its loop over the branches
FlowingNext ==
    /\ gen.pc = "flowing"
    /\ LET pushed == PushIf(mazePaths, gen.path, 8)
           made == Append(gen.made, gen.path)
           g == [gen EXCEPT !.made = made]
           thirdStart == Pt(GRID_POINTS_X - 1, 2 + RandomInt(0, GRID_POINTS_Y - 4))
           fourthStart == Pt(2 + RandomInt(0, GRID_POINTS_X - 4), GRID_POINTS_Y - 1)
       IN  CASE gen.stage = 0 ->
                  /\ gen' = StartMeander(gen, Pt(0, 3 + RandomInt(0, GRID_POINTS_Y - 6)),
                                         "right", 80 + RandomInt(1, 40), "flowing", 1)
                  /\ mazePaths' = mazePaths
             [] gen.stage = 1 ->
                  /\ gen' = StartMeander(g, Pt(3 + RandomInt(0, GRID_POINTS_X - 6), 0),
                                         "down", 60 + RandomInt(1, 30), "flowing", 2)
                  /\ mazePaths' = pushed
             [] gen.stage = 2 ->
                  /\ gen' = IF thirdStart \notin gen.state.usedPoints
                            THEN StartMeander(g, thirdStart, "left",
                                              60 + RandomInt(1, 30), "flowing", 3)
                            ELSE [g EXCEPT !.path = << >>, !.stage = 3]
                  /\ mazePaths' = pushed
             [] gen.stage = 3 ->
                  /\ gen' = IF fourthStart \notin gen.state.usedPoints
                            THEN StartMeander(g, fourthStart, "up",
                                              50 + RandomInt(1, 25), "flowing", 4)
                            ELSE [g EXCEPT !.path = << >>, !.stage = 4]
                  /\ mazePaths' = pushed
             [] gen.stage = 4 ->
                  /\ gen' = [g EXCEPT
                         !.pc = "branches", !.ret = "flowing", !.stage = 5,
                         !.count = 4 + RandomInt(0, 3), !.i = 0,
                         !.dirs = <<"right", "down", "left", "up">>,
                         !.pool = SliceBack(made[1], 6, 4) \o SliceBack(made[2], 6, 4)
                                    \o (IF Len(made[3]) >= 10 THEN SliceBack(made[3], 6, 4)
                                        ELSE << >>)
                                    \o (IF Len(made[4]) >= 10 THEN SliceBack(made[4], 6, 4)
                                        ELSE << >>)]
                  /\ mazePaths' = pushed
             [] gen.stage = 5 ->
                  /\ gen' = [gen EXCEPT !.pc = "done"]
                  /\ mazePaths' = mazePaths
    /\ Advance(2)
    /\ UNCHANGED <<gridPoints, geomVars, codecVars, appVars, drawVars, iconVars, designVars>>

\* one iteration of a loop over branches (the branches of the flowing maze,
\* the dead ends of the entry/exit maze), or its end
BranchStep ==
    /\ gen.pc = "branches"
    /\ IF ~(gen.i < gen.count /\ Len(gen.pool) > 0)
       THEN /\ gen' = [gen EXCEPT !.pc = gen.ret]
            /\ mazePaths' = mazePaths
       ELSE LET idx == RandomInt(0, Len(gen.pool))
                branchStart == gen.pool[idx + 1]
                dir == gen.dirs[RandomInt(1, Len(gen.dirs)) + 1]
                branch == generateBranch(branchStart, gen.state, dir, 2)
            IN  /\ gen' = [gen EXCEPT !.pool = RemoveAt(@, idx), !.state = branch.state,
                                      !.i = @ + 1]
                /\ mazePaths' = PushIf(mazePaths, branch.path, 4)
    /\ Advance(5)
    /\ UNCHANGED <<gridPoints, geomVars, codecVars, appVars, drawVars, iconVars, designVars>>

\* generateEntryExitMaze between its calls and its loop over the dead ends
EntryExitNext ==
    /\ gen.pc = "entry_exit"
    /\ LET entry == pickEdgeStart("left", gen.state, 0)
           pushed == PushIf(mazePaths, gen.path, 10)
       IN  CASE gen.stage = 0 ->
                  IF entry = << >> THEN Fallback
                  ELSE /\ gen' = StartMeander(gen, entry[1], "right",
                                              60 + RandomInt(1, 30), "entry_exit", 1)
                       /\ mazePaths' = mazePaths
             [] gen.stage = 1 ->
                  /\ gen' = [gen EXCEPT
                         !.pc = "branches", !.ret = "entry_exit", !.stage = 2,
                         !.count = 1 + RandomInt(0, 2), !.i = 0,
                         !.dirs = <<"up", "down">>,
                         !.pool = EveryFifth(SliceBack(gen.path, 8, 6))]
                  /\ mazePaths' = pushed
             [] gen.stage = 2 ->
                  IF Len(mazePaths) > 0
                  THEN /\ gen' = [gen EXCEPT !.pc = "done"]
                       /\ mazePaths' = mazePaths
                  ELSE Fallback
    /\ Advance(2)
    /\ UNCHANGED <<gridPoints, geomVars, codecVars, appVars, drawVars, iconVars, designVars>>

\* generateMultiMergeMaze between its calls of generatePathToward
MultiMergeNext ==
    /\ gen.pc = "multi_merge"
    /\ LET entryCount == 2 + RandomInt(0, 3)
           exitY == (GRID_POINTS_Y \div 2) + RandomInt(1, 5) - 2
           mergeX == GRID_POINTS_X - 6 - RandomInt(2, 4)
           mergeY == exitY + RandomInt(3, 3) - 1
           mergePoint == Pt(MaxOf(10, mergeX), MaxOf(2, MinOf(GRID_POINTS_Y - 3, mergeY)))
           edges == <<"left", "top", "bottom">>
           start == pickEdgeStart(edges[(gen.i % Len(edges)) + 1], gen.state, 0)
       IN  CASE gen.stage = 0 ->
                  /\ gen' = [gen EXCEPT !.stage = 1, !.count = entryCount, !.i = 0,
                                        !.merge = mergePoint,
                                        !.state = addPoint(mergePoint, << >>, gen.state)]
                  /\ mazePaths' = mazePaths
             [] gen.stage = 1 ->
                  /\ gen' = IF gen.i >= gen.count
                            THEN [gen EXCEPT !.pc = "final", !.path = <<gen.merge>>]
                            ELSE IF start = << >> THEN [gen EXCEPT !.i = @ + 1]
                            ELSE [gen EXCEPT !.pc = "toward", !.stage = 2,
                                             !.path = <<start[1]>>,
                                             !.state = addPoint(start[1], << >>, gen.state),
                                             !.dir = "", !.iter = 0]
                  /\ mazePaths' = mazePaths
             [] gen.stage = 2 ->
                  /\ gen' = [gen EXCEPT !.stage = 1, !.i = @ + 1]
                  /\ mazePaths' = PushIf(mazePaths, gen.path, 5)
    /\ Advance(4)
    /\ UNCHANGED <<gridPoints, geomVars, codecVars, appVars, drawVars, iconVars, designVars>>

\* the loop over perpDirs of generatePathToward, from index i on:
\* [path, state, moved, dir]
RECURSIVE PerpMoves(_, _, _, _, _)
PerpMoves(path, state, currentDir, perpDirs, i) ==
    IF i > Len(perpDirs)
    THEN [path |-> path, state |-> state, moved |-> FALSE, dir |-> currentDir]
    ELSE LET perpDir == perpDirs[i]
             isPerp == currentDir # "" /\ IsVertical(currentDir) # IsVertical(perpDir)
             turn == IF isPerp THEN addCornerTurn(path, state, currentDir, perpDir)
                     ELSE [path |-> path, state |-> state, ok |-> TRUE]
             run == addStraightRun(turn.path, turn.state, getDelta(perpDir).dx,
                                   getDelta(perpDir).dy, 3)
         IN  IF ~turn.ok THEN PerpMoves(path, state, currentDir, perpDirs, i + 1)
             ELSE IF run.added > 0
             THEN [path |-> run.path, state |-> run.state, moved |-> TRUE, dir |-> perpDir]
             ELSE PerpMoves(run.path, run.state, currentDir, perpDirs, i + 1)

\* one iteration of the loop of generatePathToward, or its end
TowardStep ==
    /\ gen.pc = "toward"
    /\ LET current == gen.path[Len(gen.path)]
           dx == gen.merge.x - current.x
           dy == gen.merge.y - current.y
           preferredDir == IF Abs(dx) > Abs(dy)
                           THEN (IF dx > 0 THEN "right" ELSE "left")
                           ELSE (IF dy > 0 THEN "down" ELSE "up")
           mustTurn == /\ gen.dir # ""
                       /\ gen.dir # preferredDir
                       /\ IsVertical(gen.dir) # IsVertical(preferredDir)
           turn == addCornerTurn(gen.path, gen.state, gen.dir, preferredDir)
           altDir == getPerpendicularDirs(gen.dir, 0)[1]
           alt == addCornerTurn(gen.path, gen.state, gen.dir, altDir)
           runLen == 4 + RandomInt(1, 4)
           run == addStraightRun(gen.path, gen.state, getDelta(preferredDir).dx,
                                 getDelta(preferredDir).dy, runLen)
           perp == PerpMoves(gen.path, gen.state, gen.dir,
                             getPerpendicularDirs(preferredDir, 2), 1)
       IN  gen' =
               IF gen.iter >= 30 THEN [gen EXCEPT !.pc = "multi_merge"]
               ELSE IF Abs(dx) <= 2 /\ Abs(dy) <= 2 THEN [gen EXCEPT !.pc = "multi_merge"]
               ELSE IF mustTurn /\ turn.ok
               THEN [gen EXCEPT !.path = turn.path, !.state = turn.state,
                                !.dir = preferredDir, !.iter = @ + 1]
               ELSE IF mustTurn /\ alt.ok
               THEN [gen EXCEPT !.path = alt.path, !.state = alt.state,
                                !.dir = altDir, !.iter = @ + 1]
               ELSE IF run.added > 0
               THEN [gen EXCEPT !.path = run.path, !.state = run.state,
                                !.dir = preferredDir, !.iter = @ + 1]
               ELSE [gen EXCEPT !.path = perp.path, !.state = perp.state,
                                !.dir = perp.dir, !.iter = @ + 1,
                                !.pc = IF perp.moved THEN "toward" ELSE "multi_merge"]
    /\ Advance(3)
    /\ UNCHANGED <<gridPoints, mazePaths, geomVars, codecVars, appVars, drawVars, iconVars, designVars>>

\* one iteration of the loop of the final path of generateMultiMergeMaze, or
\* its end and the return
FinalStep ==
    /\ gen.pc = "final"
    /\ LET current == gen.path[Len(gen.path)]
           next == Pt(current.x + 1, current.y)
           altY == current.y + (IF RandomBelow(0, 50) THEN 1 ELSE -1)
           altNext == Pt(current.x + 1, altY)
           blocked == ~canMoveTo(current, next, gen.state, TRUE)
           step == IF blocked THEN altNext ELSE next
           ends == \/ ~(current.x < GRID_POINTS_X - 1)
                   \/ blocked /\ ~(isInBounds(altNext) /\ ~isInTitleBox(altNext))
           result == PushIf(mazePaths, gen.path, 2)
       IN  IF ~ends
           THEN /\ gen' = [gen EXCEPT !.path = Append(@, step),
                                      !.state = addPoint(step, <<current>>, gen.state)]
                /\ mazePaths' = mazePaths
           ELSE IF Len(result) > 0
           THEN /\ gen' = [gen EXCEPT !.pc = "done"]
                /\ mazePaths' = result
           ELSE Fallback
    /\ Advance(1)
    /\ UNCHANGED <<gridPoints, geomVars, codecVars, appVars, drawVars, iconVars, designVars>>

\* generateSpaceFillingPath up to its loop over the rows
SpaceFillingNext ==
    /\ gen.pc = "space_filling"
    /\ LET rowSpacing == 2 + RandomInt(0, 2)
       IN  gen' = [gen EXCEPT !.pc = "serpentine", !.path = <<Pt(1, 1)>>,
                              !.state = addPoint(Pt(1, 1), << >>, gen.state),
                              !.rowSpacing = rowSpacing, !.movingRight = TRUE, !.row = 0,
                              !.maxRows = (GRID_POINTS_Y - 4) \div rowSpacing]
    /\ Advance(1)
    /\ UNCHANGED <<gridPoints, mazePaths, geomVars, codecVars, appVars, drawVars, iconVars, designVars>>

\* The steps of one row of generateSpaceFillingPath, each [path, state, ok]:
\* the horizontal pass,
RowPass(g) ==
    LET current == g.path[Len(g.path)]
        targetX == IF g.movingRight THEN GRID_POINTS_X - 2 ELSE 1
        length == IF g.movingRight THEN targetX - current.x ELSE current.x - targetX
        pass == addStraightRun(g.path, g.state, IF g.movingRight THEN 1 ELSE -1, 0,
                               MaxOf(0, length))
    IN  [path |-> pass.path, state |-> pass.state,
         ok |-> ~(pass.path[Len(pass.path)].y >= GRID_POINTS_Y - g.rowSpacing - 2)]

\* the turn down with an arc, or else the step down,
RowTurnDown(g, pass) ==
    LET atEnd == pass.path[Len(pass.path)]
        downNext == Pt(atEnd.x, atEnd.y + 1)
        turn == addCornerTurn(pass.path, pass.state,
                              IF g.movingRight THEN "right" ELSE "left", "down")
    IN  IF turn.ok THEN turn
        ELSE IF ~canMoveTo(atEnd, downNext, pass.state, FALSE)
        THEN [path |-> pass.path, state |-> pass.state, ok |-> FALSE]
        ELSE [path |-> Append(pass.path, downNext),
              state |-> addPoint(downNext, <<atEnd>>, pass.state), ok |-> TRUE]

\* the way down for the row spacing and the turn to the other direction
RowTurnBack(g, down) ==
    LET rest == addStraightRun(down.path, down.state, 0, 1, g.rowSpacing - 1)
    IN  addCornerTurn(rest.path, rest.state, "down",
                      IF g.movingRight THEN "left" ELSE "right")

\* and the row as a whole: ok is FALSE where the loop is left with break
RowAfterDown(g, down) == IF down.ok THEN RowTurnBack(g, down) ELSE down
RowAfterPass(g, pass) == IF pass.ok THEN RowAfterDown(g, RowTurnDown(g, pass)) ELSE pass
SerpentineIteration(g) ==
    IF g.row >= g.maxRows THEN [path |-> g.path, state |-> g.state, ok |-> FALSE]
    ELSE RowAfterPass(g, RowPass(g))

\* the rest of generateSpaceFillingPath after row: the next row, or the return
AfterRow(row) ==
    IF row.ok
    THEN /\ gen' = [gen EXCEPT !.path = row.path, !.state = row.state,
                               !.movingRight = ~@, !.row = @ + 1]
         /\ mazePaths' = mazePaths
    ELSE IF Len(row.path) >= 20
    THEN /\ gen' = [gen EXCEPT !.pc = "done", !.path = row.path, !.state = row.state]
         /\ mazePaths' = <<row.path>>
    ELSE Fallback

\* one iteration of the loop over the rows of generateSpaceFillingPath, or its
\* end and the return
SerpentineRow ==
    /\ gen.pc = "serpentine"
    /\ AfterRow(SerpentineIteration(gen))
    /\ Advance(1)
    /\ UNCHANGED <<gridPoints, geomVars, codecVars, appVars, drawVars, iconVars, designVars>>

----------------------------------------------------------------------------
(* State machine *)

TotalPoints(ps) ==
    LET RECURSIVE Sum(_)
        Sum(k) == IF k = 0 THEN 0 ELSE Len(ps[k]) + Sum(k - 1)
    IN  Sum(Len(ps))

Init ==
    /\ paths = << << >> >>
    /\ calls = {}
    /\ transform = [sn |-> 1, sd |-> 1, ox |-> 0, oy |-> 0]
    /\ segmentInfo = << >>
    /\ segments = << >>
    /\ netSegs = << >>
    /\ netlist = << >>
    /\ encoded = << >>
    /\ decoded = << >>
    /\ appPaths = << >>
    /\ selection = SelNone
    /\ pendingPointClick = << >>
    /\ draggedPoint = << >>
    /\ didDrag = FALSE
    /\ suppressNextClick = FALSE
    /\ lastHandler = "init"
    /\ drawn = << >>
    /\ icons = {}
    /\ design = << >>
    /\ gridPoints = [x |-> 25, y |-> 19]
    /\ rand = [tape |-> << >>, pos |-> 0]
    /\ gen = [pc |-> "idle"]
    /\ mazePaths = << >>

\* the caller appends grid point p to the path it is drawing (the last one),
\* as long as the design has fewer than bound points
AppendPoint(p, bound) ==
    /\ calls = {}
    /\ TotalPoints(paths) < bound
    /\ paths' = [paths EXCEPT ![Len(paths)] = Append(@, p)]
    /\ UNCHANGED <<calls, transform, segmentInfo, segments, netSegs, netlist, codecVars, appVars, extraVars>>

AddPoint(p) == AppendPoint(p, MaxLen)

\* buildNetlistSegments(path) with the default startingSegmentNumber
CallBuildNetlistSegments ==
    /\ "netSegs" \notin calls
    /\ netSegs' = buildNetlistSegments(paths[1], 1)
    /\ calls' = calls \cup {"netSegs"}
    /\ UNCHANGED <<paths, transform, segmentInfo, segments, netlist, codecVars, appVars, extraVars>>

\* buildSegments(paths[1], t) is called and returns; a call made when an
\* earlier result is held is marked in calls
DoBuildSegments(t) ==
    /\ transform' = t
    /\ segmentInfo' = buildSegmentInfo(paths[1], t)
    /\ segments' = buildSegments(paths[1], t)
    /\ calls' = calls \cup {IF "segments" \in calls THEN "segmentsAgain" ELSE "segments"}
    /\ UNCHANGED <<paths, netSegs, netlist, codecVars, appVars, extraVars>>

\* a renderer (canvas, SVG export, test renderer) asks for the segments of the
\* path under its transform t
CallBuildSegments(t) ==
    /\ "segments" \notin calls
    /\ DoBuildSegments(t)

\* one path is drawn and handed to the two per-path functions, in any order
Next ==
    \/ \E p \in GridPoints : AddPoint(p)
    \/ CallBuildNetlistSegments
    \/ \E t \in Transforms : CallBuildSegments(t)

Spec == Init /\ [][Next]_vars

DesignAddPoint(p) == AppendPoint(p, MaxDesignPoints)

\* the caller starts another path
NewPath ==
    /\ calls = {}
    /\ Len(paths) < MaxPaths
    /\ paths' = Append(paths, << >>)
    /\ UNCHANGED <<calls, transform, segmentInfo, segments, netSegs, netlist, codecVars, appVars, extraVars>>

\* netlist generation with its segment counter kept between calls: a later
\* call goes on counting after the rows of the text returned before
DoGenerateNetlistCounterKept ==
    /\ netlist' = LET lines == NetlistLoop(paths, 1, << >>,
                                  1 + Len(SelectSeq(netlist, LAMBDA l : l # BlankLine)))
                  IN  IF Len(lines) > 0 /\ lines[Len(lines)] = BlankLine
                      THEN SubSeq(lines, 1, Len(lines) - 1)
                      ELSE lines
    /\ calls' = calls \cup {IF "netlist" \in calls THEN "netlistAgain" ELSE "netlist"}
    /\ UNCHANGED <<paths, transform, segmentInfo, segments, netSegs, codecVars, appVars, extraVars>>

\* generateNetlist(paths) is called and returns; a call made when an earlier
\* result is held is marked in calls
DoGenerateNetlist ==
    /\ netlist' = generateNetlist(paths)
    /\ calls' = calls \cup {IF "netlist" \in calls THEN "netlistAgain" ELSE "netlist"}
    /\ UNCHANGED <<paths, transform, segmentInfo, segments, netSegs, codecVars, appVars, extraVars>>

CallGenerateNetlist ==
    /\ calls = {}
    /\ DoGenerateNetlist

\* a design of several paths is drawn and handed to generateNetlist
NextDesign ==
    \/ \E p \in DesignGridPoints : DesignAddPoint(p)
    \/ NewPath
    \/ CallGenerateNetlist

SpecDesign == Init /\ [][NextDesign]_vars

CallsAddPoint(p) == AppendPoint(p, MaxCallPoints)

\* a small design is drawn; then the canvas redraws its first path and the
\* netlist is regenerated any number of times, in any order
NextCalls ==
    \/ \E p \in DesignGridPoints : CallsAddPoint(p)
    \/ NewPath
    \/ \E t \in Transforms : DoBuildSegments(t)
    \/ DoGenerateNetlist

SpecCalls == Init /\ [][NextCalls]_vars

\* one more character of the design parameter of the URL
TypeChar(c) ==
    /\ calls = {}
    /\ Len(encoded) < MaxChars
    /\ encoded' = Append(encoded, c)
    /\ UNCHANGED <<paths, calls, transform, segmentInfo, segments, netSegs, netlist, decoded, appVars, extraVars>>

\* the app restores the design from the string
CallDecodeDesign ==
    /\ calls \cap {"decodeDesign", "decodeDesignFromUrl"} = {}
    /\ decoded' = decodeDesign(encoded)
    /\ calls' = calls \cup {"decodeDesign"}
    /\ UNCHANGED <<paths, transform, segmentInfo, segments, netSegs, netlist, encoded, appVars, extraVars>>

\* the test tools decode the string
CallDecodeDesignFromUrl ==
    /\ calls \cap {"decodeDesign", "decodeDesignFromUrl"} = {}
    /\ decoded' = decodeDesignFromUrl(encoded)
    /\ calls' = calls \cup {"decodeDesignFromUrl"}
    /\ UNCHANGED <<paths, transform, segmentInfo, segments, netSegs, netlist, encoded, appVars, extraVars>>

\* a design string arrives character by character and is decoded
NextDecode ==
    \/ \E c \in CodecChars : TypeChar(c)
    \/ CallDecodeDesign
    \/ CallDecodeDesignFromUrl

SpecDecode == Init /\ [][NextDecode]_vars

CodecAddPoint(p) == AppendPoint(p, MaxCodecPoints)

\* the app encodes its paths for the share URL
CallEncodeDesign ==
    /\ calls = {}
    /\ encoded' = encodeDesign(paths)
    /\ calls' = {"encodeDesign"}
    /\ UNCHANGED <<paths, transform, segmentInfo, segments, netSegs, netlist, decoded, appVars, extraVars>>

\* a design is drawn, encoded into a string, and the string is decoded
NextCodec ==
    \/ \E p \in CodecGridPoints : CodecAddPoint(p)
    \/ NewPath
    \/ CallEncodeDesign
    \/ CallDecodeDesign
    \/ CallDecodeDesignFromUrl

SpecCodec == Init /\ [][NextCodec]_vars

\* the i-th point of a path of the design: row after row over the board
RowPoint(i) == Pt((i - 1) % GRID_SIZE, ((i - 1) \div GRID_SIZE) % GRID_SIZE)

\* the user draws one more path, of n points
DesignPath(n) ==
    /\ calls = {}
    /\ Len(design) < MaxIconPaths
    /\ design' = Append(design, [points |-> [i \in 1..n |-> RowPoint(i)], icons |-> << >>])
    /\ UNCHANGED <<geomVars, codecVars, appVars, drawVars, iconVars, mazeVars>>

\* the user puts an icon on a point of the last path that has none
DesignIcon(idx, iconType) ==
    /\ calls = {}
    /\ Len(design) > 0
    /\ idx < Len(design[Len(design)].points)
    /\ Len(design[Len(design)].icons) < MaxPathIcons
    /\ \A i \in 1..Len(design[Len(design)].icons) : design[Len(design)].icons[i].index # idx
    /\ design' = [design EXCEPT ![Len(design)].icons =
                      Append(@, [index |-> idx, icon |-> iconType])]
    /\ UNCHANGED <<geomVars, codecVars, appVars, drawVars, iconVars, mazeVars>>

\* the app encodes the design for the share URL
CallEncodeDesignIcons ==
    /\ calls = {}
    /\ encoded' = encodeDesignIcons(design)
    /\ calls' = {"encodeDesign"}
    /\ UNCHANGED <<paths, transform, segmentInfo, segments, netSegs, netlist, decoded, appVars, extraVars>>

\* the app, or the test tools, restore the design from the string
CallDecodeDesignIcons ==
    /\ calls = {"encodeDesign"}
    /\ decoded' = decodeDesignIcons(encoded)
    /\ calls' = calls \cup {"decodeDesign"}
    /\ UNCHANGED <<paths, transform, segmentInfo, segments, netSegs, netlist, encoded, appVars, extraVars>>

CallDecodeDesignFromUrlIcons ==
    /\ calls = {"encodeDesign"}
    /\ decoded' = decodeDesignFromUrlIcons(encoded)
    /\ calls' = calls \cup {"decodeDesignFromUrl"}
    /\ UNCHANGED <<paths, transform, segmentInfo, segments, netSegs, netlist, encoded, appVars, extraVars>>

\* a design with icons is drawn, encoded into a string, and the string is decoded
NextIconCodec ==
    \/ \E n \in PathLengths : DesignPath(n)
    \/ \E idx \in IconIndices : \E iconType \in CodecIconTypes : DesignIcon(idx, iconType)
    \/ CallEncodeDesignIcons
    \/ CallDecodeDesignIcons
    \/ CallDecodeDesignFromUrlIcons

SpecIconCodec == Init /\ [][NextIconCodec]_vars

\* a path of at most MaxDrawPoints points is drawn and then rendered once
DrawAddPoint(p) == AppendPoint(p, MaxDrawPoints)

\* the three renderers take the segments of the path from buildSegments
Rendered(route, t, commands) ==
    /\ calls = {}
    /\ calls' = {route}
    /\ transform' = t
    /\ segmentInfo' = buildSegmentInfo(paths[1], t)
    /\ segments' = buildSegments(paths[1], t)
    /\ drawn' = commands
    /\ UNCHANGED <<paths, netSegs, netlist, codecVars, appVars, iconVars, designVars, mazeVars>>

\* canvas.ts render(paths, selection): paintPaths, then paintSelection
CanvasRender(straightLineMode, sel) ==
    LET segs == buildSegments(paths[1], CanvasTransform)
    IN  Rendered("render", CanvasTransform,
                 paintPaths(segs, straightLineMode)
                     \o paintSelection(segs, sel, straightLineMode))

ExportSVG ==
    Rendered("generateSVG", SvgTransform,
             generateSVG(buildSegments(paths[1], SvgTransform)))

TestRender(straightLineMode) ==
    Rendered("renderPathsCurvedToCanvas", CanvasTransform,
             renderPathsCurvedToCanvas(paths[1],
                 buildSegments(paths[1], CanvasTransform), straightLineMode))

NextDraw ==
    \/ \E p \in GridPoints : DrawAddPoint(p)
    \/ \E mode \in BOOLEAN :
           \E sel \in {SelNone} \cup {SelSegment(1, k) : k \in 0..(Len(paths[1]) - 2)} :
               CanvasRender(mode, sel)
    \/ ExportSVG
    \/ \E mode \in BOOLEAN : TestRender(mode)

SpecDraw == Init /\ [][NextDraw]_vars

\* the events of the editor
Click(loc) ==
    /\ handleClick(loc)
    /\ UNCHANGED <<pendingPointClick, didDrag, geomVars, codecVars, extraVars>>

PointerDown(loc) ==
    /\ handleMouseDown(loc)
    /\ UNCHANGED <<appPaths, selection, draggedPoint, lastHandler, geomVars, codecVars, extraVars>>

PointerMove(loc, moved) ==
    /\ handleMouseMove(loc, moved)
    /\ UNCHANGED <<selection, pendingPointClick, suppressNextClick, lastHandler,
                   geomVars, codecVars, extraVars>>

PointerUp ==
    /\ handleMouseUp
    /\ UNCHANGED <<appPaths, suppressNextClick, lastHandler, geomVars, codecVars, extraVars>>

KeyEscape ==
    /\ clearSelection
    /\ UNCHANGED <<pendingPointClick, didDrag, suppressNextClick, geomVars, codecVars, extraVars>>

KeySpace ==
    /\ selection.kind = "path"
    /\ flipEndpoint
    /\ UNCHANGED <<pendingPointClick, didDrag, suppressNextClick, geomVars, codecVars, extraVars>>

KeyDelete ==
    /\ deleteSelection
    /\ UNCHANGED <<pendingPointClick, didDrag, suppressNextClick, geomVars, codecVars, extraVars>>

\* the user works on the design with clicks, pointer presses and releases, and
\* the keyboard
NextApp ==
    \/ \E loc \in Locations : Click(loc)
    \/ \E loc \in Locations : PointerDown(loc)
    \/ PointerUp
    \/ KeyEscape
    \/ KeySpace
    \/ KeyDelete

SpecApp == Init /\ [][NextApp]_vars

\* the editor with drags, on designs of at most MaxPointerPoints points
Small(A) == A /\ AppPointCount' <= MaxPointerPoints

NextPointer ==
    \/ \E loc \in Locations : Small(Click(loc))
    \/ \E loc \in Locations : Small(PointerDown(loc))
    \/ \E loc \in Locations : \E moved \in BOOLEAN : Small(PointerMove(loc, moved))
    \/ Small(PointerUp)
    \/ Small(KeyEscape)
    \/ Small(KeySpace)
    \/ Small(KeyDelete)

SpecPointer == Init /\ [][NextPointer]_vars

\* the editor with icons: the events above on the grid of IconGridPoints, the
\* A key, and the icon popup.  No handler but setPointIcon touches Path.icons.
WithIcons(A) ==
    /\ A
    /\ AppPointCount' <= MaxIconPoints
    /\ icons' = IconsOfLivePaths(appPaths')
    /\ UNCHANGED <<geomVars, codecVars, drawVars, designVars, mazeVars>>

IconClick(loc) ==
    WithIcons(handleClick(loc) /\ UNCHANGED <<pendingPointClick, didDrag>>)

IconPointerDown(loc) ==
    WithIcons(handleMouseDown(loc)
                  /\ UNCHANGED <<appPaths, selection, draggedPoint, lastHandler>>)

IconPointerUp ==
    WithIcons(handleMouseUp /\ UNCHANGED <<appPaths, suppressNextClick, lastHandler>>)

IconKeyEscape ==
    WithIcons(clearSelection /\ UNCHANGED <<pendingPointClick, didDrag, suppressNextClick>>)

IconKeySpace ==
    /\ selection.kind = "path"
    /\ WithIcons(flipEndpoint /\ UNCHANGED <<pendingPointClick, didDrag, suppressNextClick>>)

IconKeyDelete ==
    WithIcons(deleteSelection /\ UNCHANGED <<pendingPointClick, didDrag, suppressNextClick>>)

KeyA ==
    WithIcons(addPointToSegment /\ UNCHANGED <<pendingPointClick, didDrag, suppressNextClick>>)

ContextMenu(icon) ==
    /\ handleContextMenu(icon)
    /\ lastHandler' = "setPointIcon"
    /\ UNCHANGED <<appPaths, selection, pendingPointClick, draggedPoint, didDrag,
                   suppressNextClick, geomVars, codecVars, drawVars, designVars, mazeVars>>

NextIcons ==
    \/ \E loc \in LocationsOn(IconGridPoints) : IconClick(loc)
    \/ \E loc \in LocationsOn(IconGridPoints) : IconPointerDown(loc)
    \/ IconPointerUp
    \/ IconKeyEscape
    \/ IconKeySpace
    \/ IconKeyDelete
    \/ KeyA
    \/ \E icon \in {<< >>} \cup {<<t>> : t \in IconTypes} : ContextMenu(icon)

SpecIcons == Init /\ [][NextIcons]_vars

\* generateMaze is called once and runs to its return
NextMaze ==
    \/ \E type \in MazeTypes : \E board \in Boards :
           \E tape \in [1..TapeLen -> RandomValues] : GenerateMaze(type, board, tape)
    \/ FlowingNext
    \/ MeanderStep
    \/ BranchStep
    \/ EntryExitNext
    \/ MultiMergeNext
    \/ TowardStep
    \/ FinalStep
    \/ SpaceFillingNext
    \/ SerpentineRow

SpecMaze == Init /\ [][NextMaze]_vars

----------------------------------------------------------------------------
(* Properties *)

HasNet == "netSegs" \in calls
HasSeg == "segments" \in calls
HasList == "netlist" \in calls

\* the path handed to buildNetlistSegments / buildSegments
Path == paths[1]

IsArcTag(tag) == tag \in {"A+", "A-"}

\* kinds H, V, A+, A-, B read off the first pass of buildSegments
RenderKinds(info) ==
    [i \in 1..Len(info) |->
        IF info[i].type = "A"
        THEN (IF info[i].counterclockwise THEN "A-" ELSE "A+")
        ELSE info[i].type]

NetTags(rows) == [i \in 1..Len(rows) |-> rows[i].lineType]

C2_RenderNetlistAgree ==
    (HasNet /\ HasSeg) => RenderKinds(segmentInfo) = NetTags(netSegs)

\* C3: buildSegments gives every point pair the same kind and every arc the
\* same sense under every transform x -> o + s*x, the identity included.
C3_ScaleInvariant ==
    HasSeg => \A t \in Transforms :
        RenderKinds(buildSegmentInfo(Path, t)) = RenderKinds(segmentInfo)

\* C4: a netlist row tagged A+ exits at its entry angle plus 90 degrees and a
\* row tagged A- at its entry angle minus 90 degrees (mod 360).
C4_ArcTurnsByTag ==
    HasNet => \A i \in 1..Len(netSegs) :
        /\ netSegs[i].lineType = "A+"
              => netSegs[i].exitAngle = normalizeAngle(netSegs[i].entryAngle + 90)
        /\ netSegs[i].lineType = "A-"
              => netSegs[i].exitAngle = normalizeAngle(netSegs[i].entryAngle - 90)

\* C5: an H row has entry = exit = straight-line angle in {0, 180}, a V row has
\* entry = exit = straight-line angle in {90, -90}, and every angle of every
\* row lies in (-180, 180].
C5_StraightAngles ==
    HasNet => \A i \in 1..Len(netSegs) :
        LET r == netSegs[i]
        IN  /\ r.lineType = "H" =>
                r.entryAngle = r.angle /\ r.exitAngle = r.angle /\ r.angle \in {0, 180}
            /\ r.lineType = "V" =>
                r.entryAngle = r.angle /\ r.exitAngle = r.angle /\ r.angle \in {90, -90}
            /\ \A a \in {r.angle, r.entryAngle, r.exitAngle} : a > -180 /\ a <= 180

\* a leftward H row, a downward-in-y V row and an arc that enters at 180 degrees
C5_Witness ==
    /\ HasNet
    /\ \E i \in 1..Len(netSegs) : netSegs[i].lineType = "H" /\ netSegs[i].angle = 180
    /\ \E i \in 1..Len(netSegs) : netSegs[i].lineType = "V" /\ netSegs[i].angle = -90
    /\ \E i \in 1..Len(netSegs) : netSegs[i].lineType = "A-" /\ netSegs[i].entryAngle = 180

DistSq(ax, ay, bx, by) == (ax - bx) * (ax - bx) + (ay - by) * (ay - by)

\* the centre calculateArcParams returns is at distance radius from both ends
ArcCentreOk(x0, y0, x1, y1, ccw) ==
    LET arc == calculateArcParams(x0, y0, x1, y1, ccw)
    IN  /\ DistSq(arc.centerX, arc.centerY, x0, y0) = arc.radius * arc.radius
        /\ DistSq(arc.centerX, arc.centerY, x1, y1) = arc.radius * arc.radius

\* C6: for every segment the netlist path or the rendering path classifies as
\* an arc, the centre calculateArcParams returns is equidistant from the start
\* and the end point, at the returned radius.
C6_ArcCentreEquidistant ==
    /\ HasNet => \A i \in 1..Len(netSegs) :
          IsArcTag(netSegs[i].lineType) =>
              ArcCentreOk(netSegs[i].xStart, netSegs[i].yStart,
                          netSegs[i].xEnd, netSegs[i].yEnd,
                          netSegs[i].exitAngle = normalizeAngle(netSegs[i].entryAngle - 90))
    /\ HasSeg => \A i \in 1..Len(segments) :
          segments[i].isCircularArc =>
              ArcCentreOk(segments[i].p0.x, segments[i].p0.y,
                          segments[i].p1.x, segments[i].p1.y,
                          segments[i].arcTurnsCounterclockwise)

\* a path is closed when it has more than 2 points and ends where it starts
Closed(P) == Len(P) > 2 /\ P[1] = P[Len(P)]

\* cross product that decides the sense of the arc P[i] -> P[i+1] in the
\* rendering path: with the previous point (the wrapped one on a closed path),
\* else with the next segment, in grid units
RenderCross(P, i) ==
    LET n == Len(P)
        ax == P[i + 1].x - P[i].x
        ay == P[i + 1].y - P[i].y
        prev == IF i > 1 THEN P[i - 1] ELSE P[n - 1]
        next == IF i < n - 1 THEN P[i + 2] ELSE P[2]
    IN  IF i > 1 \/ Closed(P) THEN Cross(P[i].x - prev.x, P[i].y - prev.y, ax, ay)
        ELSE IF i < n - 1 THEN Cross(ax, ay, next.x - P[i + 1].x, next.y - P[i + 1].y)
        ELSE 0

\* the same for the netlist path, which looks at the previous point in path
\* order only
NetCross(P, i) ==
    LET n == Len(P)
        ax == P[i + 1].x - P[i].x
        ay == P[i + 1].y - P[i].y
    IN  IF i > 1 THEN Cross(P[i].x - P[i - 1].x, P[i].y - P[i - 1].y, ax, ay)
        ELSE IF i < n - 1
             THEN Cross(ax, ay, P[i + 2].x - P[i + 1].x, P[i + 2].y - P[i + 1].y)
        ELSE 0

\* indices i of the consecutive pairs P[i], P[i+1] of distinct points, in order
RECURSIVE DistinctPairs(_, _)
DistinctPairs(P, i) ==
    IF i > Len(P) - 1 THEN << >>
    ELSE IF P[i] = P[i + 1] THEN DistinctPairs(P, i + 1)
    ELSE <<i>> \o DistinctPairs(P, i + 1)

Turn(r) == normalizeAngle(r.exitAngle - r.entryAngle)

\* C8: of two consecutive arcs with parallel direction vectors (cross = 0) the
\* second gets the sense opposite to the first, in the rendering path (sense
\* flag) and in the netlist path (tag, and the turn the sense flag produces).
C8_SCurveOpposite ==
    /\ HasSeg => \A i \in 2..Len(segmentInfo) :
          (/\ segmentInfo[i - 1].type = "A"
           /\ segmentInfo[i].type = "A"
           /\ Cross(Path[i].x - Path[i - 1].x, Path[i].y - Path[i - 1].y,
                    Path[i + 1].x - Path[i].x, Path[i + 1].y - Path[i].y) = 0)
              => segmentInfo[i].counterclockwise # segmentInfo[i - 1].counterclockwise
    /\ HasNet => \A j \in 2..Len(netSegs) :
          (/\ IsArcTag(netSegs[j - 1].lineType)
           /\ IsArcTag(netSegs[j].lineType)
           /\ Cross(netSegs[j - 1].xEnd - netSegs[j - 1].xStart,
                    netSegs[j - 1].yEnd - netSegs[j - 1].yStart,
                    netSegs[j].xEnd - netSegs[j].xStart,
                    netSegs[j].yEnd - netSegs[j].yStart) = 0)
              => /\ netSegs[j].lineType # netSegs[j - 1].lineType
                 /\ Turn(netSegs[j]) # Turn(netSegs[j - 1])

\* both calls made on an S-curve of two parallel diagonal segments that the
\* renderer classifies as arcs
C8_Witness ==
    /\ HasSeg /\ HasNet
    /\ Len(Path) = 3
    /\ Path[2].x - Path[1].x = Path[3].x - Path[2].x
    /\ Path[2].y - Path[1].y = Path[3].y - Path[2].y
    /\ Len(netSegs) = 2 /\ IsArcTag(netSegs[1].lineType) /\ IsArcTag(netSegs[2].lineType)
    /\ Len(segmentInfo) = 2 /\ segmentInfo[1].type = "A" /\ segmentInfo[2].type = "A"
    /\ segmentInfo[1].counterclockwise # segmentInfo[2].counterclockwise

\* the lines of the netlist text that are segment rows
NetlistRows == SelectSeq(netlist, LAMBDA l : l # BlankLine)

\* C9: the k-th segment row of the text generateNetlist returns carries the
\* segment number k: 1-based, continuous across paths, no gap or repeat.
C9_NumberingContinuous ==
    HasList => \A k \in 1..Len(NetlistRows) :
        NetlistRows[k][1] = padStart(ToString(k), 2)

\* a netlist of two paths, both with rows, where the first path has a
\* zero-length segment skipped before its last row
C9_Witness ==
    /\ HasList
    /\ Len(paths) = 2
    /\ Len(paths[1]) = 3
    /\ paths[1][1] = paths[1][2]
    /\ paths[1][2] # paths[1][3]
    /\ Len(DistinctPairs(paths[2], 1)) = 1
    /\ Len(NetlistRows) = 2
    /\ NetlistRows[1][1] = " 1"
    /\ NetlistRows[2][1] = " 2"
    /\ netlist[2] = BlankLine

\* C10: buildNetlistSegments emits no row for a consecutive pair of identical
\* points and exactly one row, in path order and with the pair's own
\* endpoints, for every consecutive pair of distinct points.
C10_RowsAreDistinctPairs ==
    HasNet =>
        LET idx == DistinctPairs(Path, 1)
        IN  /\ Len(netSegs) = Len(idx)
            /\ \A j \in 1..Len(idx) :
                  /\ Pt(netSegs[j].xStart, netSegs[j].yStart) = Path[idx[j]]
                  /\ Pt(netSegs[j].xEnd, netSegs[j].yEnd) = Path[idx[j] + 1]

\* a path with a duplicate point between two proper segments
C10_Witness ==
    /\ HasNet
    /\ Len(Path) = 4
    /\ Path[2] = Path[3]
    /\ Len(netSegs) = 2
    /\ Pt(netSegs[2].xStart, netSegs[2].yStart) = Path[3]
    /\ Pt(netSegs[2].xEnd, netSegs[2].yEnd) = Path[4]

\* the lines a text has when it is split at "\n": join("\n") of no line and of
\* one empty line are both the empty string, whose split is one empty line
LinesOfText(lines) == IF lines = << >> THEN <<BlankLine>> ELSE lines

\* the rows of the row-producing paths of ps, taken in order from rows, with
\* one empty line between the rows of two consecutive row-producing paths
RECURSIVE SeparatedRows(_, _, _, _)
SeparatedRows(ps, k, rows, acc) ==
    IF k > Len(ps) THEN acc
    ELSE LET n == Len(buildNetlistSegments(ps[k], 1))
         IN  IF n = 0 THEN SeparatedRows(ps, k + 1, rows, acc)
             ELSE SeparatedRows(ps, k + 1, SubSeq(rows, n + 1, Len(rows)),
                      (IF acc = << >> THEN << >> ELSE Append(acc, BlankLine))
                          \o SubSeq(rows, 1, n))

\* C11: the text generateNetlist returns has an empty line exactly between the
\* rows of two consecutive row-producing paths and nowhere else, whatever
\* rowless paths the list holds, and is the empty string when no path has a row.
C11_BlankOnlyBetweenRows ==
    HasList => LinesOfText(netlist) = LinesOfText(SeparatedRows(paths, 1, NetlistRows, << >>))

\* a two-point path whose only segment is a diagonal with |dx| = |dy| # 0
OrphanDiagonal(P) ==
    /\ Len(P) = 2
    /\ Abs(P[2].x - P[1].x) = Abs(P[2].y - P[1].y)
    /\ P[2].x # P[1].x

\* C12: an arc that is the first segment of a two-point path, with neither a
\* previous point nor a look-ahead point, is clockwise: its netlist row is
\* tagged A+ and turns by +90 degrees, and buildSegments, where it classifies
\* the segment as an arc, returns it with arcTurnsCounterclockwise = false.
C12_OrphanArcClockwise ==
    /\ (HasNet /\ OrphanDiagonal(Path)) =>
          /\ Len(netSegs) = 1
          /\ netSegs[1].lineType = "A+"
          /\ Turn(netSegs[1]) = 90
    /\ (HasSeg /\ OrphanDiagonal(Path)) =>
          /\ Len(segments) = 1
          /\ Len(segmentInfo) = 1
          /\ segmentInfo[1].type = "A" =>
                /\ ~segmentInfo[1].counterclockwise
                /\ segments[1].isCircularArc
                /\ ~segments[1].arcTurnsCounterclockwise

\* both calls made on a two-point diagonal that the renderer, in pixels,
\* classifies as an arc
C12_Witness ==
    /\ HasNet /\ HasSeg
    /\ OrphanDiagonal(Path)
    /\ transform.sn = 24
    /\ netSegs[1].lineType = "A+"
    /\ segments[1].isCircularArc
    /\ ~segments[1].arcTurnsCounterclockwise

\* cross product of the closing segment P[n-1] -> P[n] = P[1] of a closed path
\* with its first segment P[1] -> P[2], in grid units
WrapCross(P) ==
    Cross(P[1].x - P[Len(P) - 1].x, P[1].y - P[Len(P) - 1].y,
          P[2].x - P[1].x, P[2].y - P[1].y)

\* C13: on a closed path the sense of an arc that is the first segment is
\* computed from the wrapped previous point (the second-to-last point), in the
\* rendering path and in the netlist path alike: clockwise (A+) for a positive
\* cross product, counter-clockwise (A-) for a negative one, so both paths
\* give that arc the same sense.
C13_ClosedPathWraps ==
    (Closed(Path) /\ Path[1] # Path[2]) =>
        /\ (HasSeg /\ segmentInfo[1].type = "A") =>
              /\ WrapCross(Path) > 0 => ~segmentInfo[1].counterclockwise
              /\ WrapCross(Path) < 0 => segmentInfo[1].counterclockwise
        /\ (HasNet /\ IsArcTag(netSegs[1].lineType)) =>
              /\ WrapCross(Path) > 0 => netSegs[1].lineType = "A+"
              /\ WrapCross(Path) < 0 => netSegs[1].lineType = "A-"
        /\ (HasSeg /\ HasNet /\ segmentInfo[1].type = "A"
                /\ IsArcTag(netSegs[1].lineType) /\ WrapCross(Path) # 0) =>
              RenderKinds(segmentInfo)[1] = netSegs[1].lineType

\* the y (x) component of the tangent t is 0
TangentYZero(t) ==
    IF t.bx = 0 /\ t.by = 0 THEN t.ay = 0
    ELSE /\ t.ay * t.by <= 0
         /\ t.ay * t.ay * (t.bx * t.bx + t.by * t.by)
                = t.by * t.by * (t.ax * t.ax + t.ay * t.ay)

TangentXZero(t) ==
    IF t.bx = 0 /\ t.by = 0 THEN t.ax = 0
    ELSE /\ t.ax * t.bx <= 0
         /\ t.ax * t.ax * (t.bx * t.bx + t.by * t.by)
                = t.bx * t.bx * (t.ax * t.ax + t.ay * t.ay)

\* the control point has the y (x) of the point it is attached to
SameY(cp) == cp.lenSq = 0 \/ TangentYZero(cp.t)
SameX(cp) == cp.lenSq = 0 \/ TangentXZero(cp.t)

\* C14: for every segment buildSegments classifies as H (V), both control
\* points have the y (x) of the segment's endpoints, whatever the neighbouring
\* segments are.
C14_StraightControlPoints ==
    HasSeg => \A i \in 1..Len(segments) :
        /\ segmentInfo[i].type = "H" =>
              /\ segments[i].p0.y = segments[i].p1.y
              /\ SameY(segments[i].cp1) /\ SameY(segments[i].cp2)
        /\ segmentInfo[i].type = "V" =>
              /\ segments[i].p0.x = segments[i].p1.x
              /\ SameX(segments[i].cp1) /\ SameX(segments[i].cp2)

\* every result held is the value the function has on the design as it is now
ResultsAreFunctions ==
    /\ HasSeg => /\ segments = buildSegments(Path, transform)
                 /\ segmentInfo = buildSegmentInfo(Path, transform)
    /\ HasList => netlist = generateNetlist(paths)

HasDecoded == calls \cap {"decodeDesign", "decodeDesignFromUrl"} # {}

\* a two-character pair of base-62 digits that encodes an index in 0..624
WellFormedPair(pair) ==
    /\ Len(pair) = 2
    /\ \A i \in 1..2 : \E d \in 1..Len(base62) : base62[d] = pair[i]
    /\ base62ToIndex(pair) < GRID_SIZE * GRID_SIZE

\* the points of the well-formed pairs of a points string, in order
RECURSIVE WellFormedPoints(_, _)
WellFormedPoints(pointsStr, i) ==
    IF i > Len(pointsStr) THEN << >>
    ELSE LET pair == SubSeq(pointsStr, i, i + 1)
         IN  (IF WellFormedPair(pair) THEN <<indexToPoint(base62ToIndex(pair))>> ELSE << >>)
                 \o WellFormedPoints(pointsStr, i + 2)

\* what the paths of a design string decode to when odd-length path strings
\* are skipped and only well-formed pairs contribute points
RECURSIVE WellFormedPaths(_, _)
WellFormedPaths(pathStrings, k) ==
    IF k > Len(pathStrings) THEN << >>
    ELSE LET pointsStr == Split(pathStrings[k], "!")[1]
             points == WellFormedPoints(pointsStr, 1)
         IN  (IF Len(pointsStr) % 2 = 0 /\ Len(points) >= 2 THEN <<points>> ELSE << >>)
                 \o WellFormedPaths(pathStrings, k + 1)

\* C16: decoding never aborts; a path string of odd length is skipped as a
\* whole, a pair with a character outside the base-62 alphabet in either
\* position or with an index outside 0..624 contributes no point, and every
\* other pair and path is decoded as in a well-formed string.
C16_MalformedPairsSkipped ==
    HasDecoded => decoded = WellFormedPaths(PathStrings(encoded), 1)

\* all paths of the design have at least 2 points
Encodable(ps) == \A k \in 1..Len(ps) : Len(ps[k]) >= 2

\* C17: for a design whose paths each have at least 2 points on the 25 x 25
\* grid, decoding the string encodeDesign produces returns the same paths in
\* the same order with identical point sequences, with either decoder.
C17_RoundTrip ==
    ("encodeDesign" \in calls /\ HasDecoded /\ Encodable(paths)) => decoded = paths

\* a design of two paths, one of them closed with a repeated point, with a
\* point whose index needs a non-zero high digit, encoded and decoded
C17_Witness ==
    /\ "encodeDesign" \in calls /\ HasDecoded
    /\ Len(paths) = 2
    /\ Len(paths[1]) = 2 /\ paths[1][1] = paths[1][2]
    /\ Len(paths[2]) = 2 /\ paths[2][1] = Pt(24, 24) /\ paths[2][2] = Pt(3, 0)
    /\ encoded = <<"0", "0", "0", "0", ",", "A", "4", "0", "3">>
    /\ decoded = paths

----------------------------------------------------------------------------
(* The editor: selection and editing *)

\* the selection the segment-click cycle asks for after a click on segment h
CycleSelection(h) ==
    IF /\ selection.kind = "segment"
       /\ selection.pathId = h.pathId
       /\ selection.index = h.segmentIndex
    THEN SelPath(h.pathId, "end")
    ELSE IF selection.kind = "path" /\ selection.pathId = h.pathId
    THEN SelNone
    ELSE SelSegment(h.pathId, h.segmentIndex)

SegmentsOf(points) == [i \in 1..(Len(points) - 1) |-> <<points[i], points[i + 1]>>]

\* the pieces of a path cut at segment k (0-based) that have a segment
KeptPieces(points, k) ==
    LET left == SubSeq(points, 1, k + 1)
        right == SubSeq(points, k + 2, Len(points))
    IN  (IF Len(left) >= 2 THEN <<left>> ELSE << >>)
        \o (IF Len(right) >= 2 THEN <<right>> ELSE << >>)

\* the segments of a sequence of point sequences, one after the other
RECURSIVE AllSegmentsOf(_)
AllSegmentsOf(pieces) ==
    IF pieces = << >> THEN << >>
    ELSE SegmentsOf(Head(pieces)) \o AllSegmentsOf(Tail(pieces))

\* C19: when Delete is pressed while segment k of a path p0..pn is selected,
\* the path is in the design and has a segment k; afterwards the other paths
\* are what they were, in their order, followed by new paths whose points are
\* the pieces [p0..pk] and [pk+1..pn] that have at least 2 points; the
\* segments of the new paths are, in order, the segments of the path without
\* segment k; and nothing is selected.
C19_DeleteSegmentSplits ==
    [][(KeyDelete /\ selection.kind = "segment") =>
          LET f == FindPath(appPaths, selection.pathId)
              k == selection.index
              others == WithoutPath(appPaths, selection.pathId)
          IN  /\ f # << >>
              /\ k >= 0
              /\ k <= Len(appPaths[f[1]].points) - 2
              /\ Len(appPaths') >= Len(others)
              /\ SubSeq(appPaths', 1, Len(others)) = others
              /\ LET new == SubSeq(appPaths', Len(others) + 1, Len(appPaths'))
                     pieces == [i \in 1..Len(new) |-> new[i].points]
                 IN  /\ pieces = KeptPieces(appPaths[f[1]].points, k)
                     /\ AllSegmentsOf(pieces)
                          = RemoveAt(SegmentsOf(appPaths[f[1]].points), k)
                     /\ \A i \in 1..Len(new) :
                            /\ \A j \in 1..Len(others) : new[i].id # others[j].id
                            /\ \A j \in 1..Len(new) : new[i].id = new[j].id => i = j
              /\ selection' = SelNone]_vars

\* the middle segment of a four-point path has been deleted: two pieces
C19_Witness ==
    /\ lastHandler = "deleteSelection"
    /\ selection = SelNone
    /\ Len(appPaths) = 2
    /\ appPaths[1].points = <<Pt(0, 0), Pt(1, 0)>>
    /\ appPaths[2].points = <<Pt(1, 0), Pt(0, 0)>>
    /\ appPaths[1].id # appPaths[2].id

\* the point of a path at the endpoint e
EndpointOf(points, e) == IF e = "end" THEN points[Len(points)] ELSE points[1]

----------------------------------------------------------------------------
(* buildSegments: segments, tangents and control points *)

\* C25: of a path with n >= 2 points buildSegments returns n - 1 segments;
\* the i-th (from 0) has segmentIndex i and the transformed points i and
\* i + 1 as endpoints, so that segmentIndex addresses a consecutive point
\* pair of the path; of a path with fewer than 2 points it returns the empty
\* list.
C25_OneSegmentPerPair ==
    HasSeg =>
        IF Len(Path) < 2 THEN segments = << >>
        ELSE /\ Len(segments) = Len(Path) - 1
             /\ \A i \in 1..Len(segments) :
                    /\ segments[i].segmentIndex = i - 1
                    /\ segments[i].p0 = toCanvasPoint(transform, Path[i])
                    /\ segments[i].p1 = toCanvasPoint(transform, Path[i + 1])
                    /\ segments[i].segmentIndex >= 0
                    /\ segments[i].segmentIndex + 2 <= Len(Path)

\* the segments of a path of five points, some of them repeated, are held
C25_Witness ==
    /\ HasSeg
    /\ Len(Path) = 5
    /\ Len(segments) = 4
    /\ Path[2] = Path[3]
    /\ transform.sn = 24

\* the tangents buildSegments computed for the segments it returned
Tangents == buildTangents(Path, transform)

\* the tangent record stands for the zero vector
IsZeroTangent(t) ==
    \/ t.ax = 0 /\ t.ay = 0 /\ t.bx = 0 /\ t.by = 0
    \/ /\ ~(t.bx = 0 /\ t.by = 0)
       /\ Cross(t.ax, t.ay, t.bx, t.by) = 0
       /\ t.ax * t.bx + t.ay * t.by < 0

\* vertex i lies between two segments without a fixed tangent and the path
\* turns back on itself there
IsCusp(i) ==
    /\ i > 1 /\ i < Len(Path)
    /\ ~hasFixedTangent(segmentInfo[i - 1].type)
    /\ ~hasFixedTangent(segmentInfo[i].type)
    /\ Path[i] # Path[i - 1]
    /\ Cross(Path[i].x - Path[i - 1].x, Path[i].y - Path[i - 1].y,
             Path[i + 1].x - Path[i].x, Path[i + 1].y - Path[i].y) = 0
    /\ (Path[i].x - Path[i - 1].x) * (Path[i + 1].x - Path[i].x)
         + (Path[i].y - Path[i - 1].y) * (Path[i + 1].y - Path[i].y) < 0

\* C26: for a path with at least 2 points, no vertex tangent buildSegments
\* computes is the zero vector (each is a unit vector), and at a cusp the
\* tangent is the unit incoming direction rotated by a quarter turn.
C26_TangentsAreUnit ==
    (HasSeg /\ Len(Path) >= 2) =>
        \A i \in 1..Len(Path) :
            /\ ~IsZeroTangent(Tangents[i])
            /\ IsCusp(i) =>
                  LET incoming == normalize(Path[i].x - Path[i - 1].x, Path[i].y - Path[i - 1].y)
                  IN  Tangents[i] = [ax |-> -incoming.ay, ay |-> incoming.ax, bx |-> 0, by |-> 0]

ZeroTangent == normalize(0, 0)

\* the direction in which segment i (1-based) of the returned segments
\* arrives at its end: the arc's end tangent, or the direction of p1 - cp2
ArrivalDirection(i) ==
    LET seg == segments[i]
    IN  IF seg.isCircularArc
        THEN getArcEndTangent(seg.p0, seg.p1, seg.arcTurnsCounterclockwise)
        ELSE IF seg.cp2.lenSq = 0 THEN ZeroTangent ELSE seg.cp2.t

\* the direction in which segment i leaves its start: the arc's start
\* tangent, or the direction of cp1 - p0
DepartureDirection(i) ==
    LET seg == segments[i]
    IN  IF seg.isCircularArc
        THEN getArcStartTangent(seg.p0, seg.p1, seg.arcTurnsCounterclockwise)
        ELSE IF seg.cp1.lenSq = 0 THEN ZeroTangent ELSE seg.cp1.t

\* C22: at every vertex shared by two consecutive segments of the returned
\* list, the earlier segment arrives in the direction in which the later one
\* leaves, whatever the kinds of the two segments are.
C22_TangentContinuity ==
    HasSeg => \A i \in 1..(Len(segments) - 1) :
                  ArrivalDirection(i) = DepartureDirection(i + 1)

\* the tangent with which the fixed segment k (H, V or Arc) of the returned
\* list ends (exit) and starts (entry), from its end points and its sense
FixedExitTangent(k) ==
    LET seg == segments[k]
    IN  IF segmentInfo[k].type = "H" THEN getHorizontalTangent(seg.p0, seg.p1)
        ELSE IF segmentInfo[k].type = "V" THEN getVerticalTangent(seg.p0, seg.p1)
        ELSE getArcEndTangent(seg.p0, seg.p1, segmentInfo[k].counterclockwise)

FixedEntryTangent(k) ==
    LET seg == segments[k]
    IN  IF segmentInfo[k].type = "H" THEN getHorizontalTangent(seg.p0, seg.p1)
        ELSE IF segmentInfo[k].type = "V" THEN getVerticalTangent(seg.p0, seg.p1)
        ELSE getArcStartTangent(seg.p0, seg.p1, segmentInfo[k].counterclockwise)

IsFixed(k) == hasFixedTangent(segmentInfo[k].type)
IsSpline(k) == segmentInfo[k].type = "B"

\* the handles of a spline next to a fixed segment at the vertex between
\* segment k and segment k + 1
InnerHandlesInherit ==
    \A k \in 1..(Len(segments) - 1) :
        /\ (IsFixed(k) /\ IsSpline(k + 1)) => segments[k + 1].cp1.t = FixedExitTangent(k)
        /\ (IsSpline(k) /\ IsFixed(k + 1)) => segments[k].cp2.t = FixedEntryTangent(k + 1)
        /\ (IsFixed(k) /\ IsFixed(k + 1)) => Tangents[k + 1] = FixedExitTangent(k)

\* the same at the closing vertex of a closed path, between the last segment
\* and the first
ClosingHandlesInherit ==
    LET n == Len(segments)
    IN  Closed(Path) =>
            /\ (IsFixed(n) /\ IsSpline(1)) => segments[1].cp1.t = FixedExitTangent(n)
            /\ (IsSpline(n) /\ IsFixed(1)) => segments[n].cp2.t = FixedEntryTangent(1)

\* C23: wherever a spline shares a vertex with an H, V or Arc segment of the
\* path, the closing vertex of a closed path included, the spline's handle at
\* that vertex is along the fixed segment's tangent there: the exit tangent of
\* a fixed segment before the spline, the entry tangent of one after it; where
\* both segments at a vertex are fixed the vertex tangent is the exit tangent
\* of the earlier one.
C23_SplineInheritsFixedTangent ==
    HasSeg => (InnerHandlesInherit /\ ClosingHandlesInherit)

----------------------------------------------------------------------------
(* The drawing routes *)

\* C24: no stroke command of a rendering that is not in straight-line mode
\* (path painting, selection highlight, SVG export, test renderer) draws a
\* segment flagged isCircularArc as a cubic Bezier through its control points:
\* each draws the quarter-circle arc.
C24_ArcsDrawnAsArcs ==
    \A c \in 1..Len(drawn) :
        (/\ ~drawn[c].straightLineMode
         /\ segments[drawn[c].segmentIndex + 1].isCircularArc)
            => drawn[c].op \in {"arc", "A"}

----------------------------------------------------------------------------
(* The editor: validity of the selection under any interleaving of events *)

\* the path with this id is in the list and index is less than bound(points)
NamesPath(pathId) == FindPath(appPaths, pathId) # << >>
PointsOf(pathId) == appPaths[FindPath(appPaths, pathId)[1]].points

SelectionValid ==
    /\ selection.kind \in {"path", "segment", "point"} => NamesPath(selection.pathId)
    /\ selection.kind = "segment" =>
           /\ NamesPath(selection.pathId)
           /\ selection.index < Len(PointsOf(selection.pathId)) - 1
    /\ selection.kind = "point" =>
           /\ NamesPath(selection.pathId)
           /\ selection.index < Len(PointsOf(selection.pathId))

DraggedPointValid ==
    draggedPoint # << >> =>
        /\ NamesPath(draggedPoint[1].pathId)
        /\ draggedPoint[1].pointIndex < Len(PointsOf(draggedPoint[1].pathId))

PathsHaveSegments == \A k \in 1..Len(appPaths) : Len(appPaths[k].points) >= 2

\* C27: after any sequence of pointer-down, pointer-move, pointer-up, click
\* and key events, a selection of kind path, segment or point names a path of
\* the list and an index inside it (segmentIndex < points.length - 1,
\* pointIndex < points.length), so does the dragged point, and every path of
\* the list has at least 2 points.
C27_SelectionStaysValid ==
    SelectionValid /\ DraggedPointValid /\ PathsHaveSegments

----------------------------------------------------------------------------
(* The editor: the icons of a path under edits of the path *)

\* the grid point an icon entry sits on in the paths ps: <<p>>, or << >> when
\* the path is gone or the index is past its end
IconPoint(ps, e) ==
    LET f == FindPath(ps, e.pathId)
    IN  IF f = << >> THEN << >>
        ELSE IF e.pointIndex >= Len(ps[f[1]].points) THEN << >>
        ELSE <<ps[f[1]].points[e.pointIndex + 1]>>

\* the step is an edit of the path of entry e, of one of four kinds, and the
\* point of e is not removed by it
PrependsTo(e) ==
    /\ lastHandler' = "handlePointClick"
    /\ FindPath(appPaths', e.pathId) # << >>
    /\ Len(PointsOf(e.pathId)') = Len(PointsOf(e.pathId)) + 1
    /\ Tail(PointsOf(e.pathId)') = PointsOf(e.pathId)

InsertsMidpointIn(e) ==
    /\ lastHandler' = "addPointToSegment"
    /\ selection.pathId = e.pathId
    /\ appPaths' # appPaths

DeletesOtherPointOf(e) ==
    /\ lastHandler' = "deleteSelection"
    /\ selection.kind = "point"
    /\ selection.pathId = e.pathId
    /\ selection.index # e.pointIndex
    /\ selection.index < Len(PointsOf(e.pathId))
    /\ Len(PointsOf(e.pathId)) >= 3

DeletesSegmentElsewhereIn(e) ==
    /\ lastHandler' = "deleteSelection"
    /\ selection.kind = "segment"
    /\ selection.pathId = e.pathId
    /\ selection.index \notin {e.pointIndex - 1, e.pointIndex}
    /\ IF e.pointIndex <= selection.index THEN selection.index + 1 >= 2
       ELSE Len(PointsOf(e.pathId)) - selection.index - 1 >= 2

\* after the step some entry with the icon of e sits on the grid point e sat on
IconKept(e) ==
    \E e2 \in icons' : e2.icon = e.icon /\ IconPoint(appPaths', e2) = IconPoint(appPaths, e)

Through(Edit(_)) ==
    \A e \in icons : (IconPoint(appPaths, e) # << >> /\ Edit(e)) => IconKept(e)

IconsThroughPrepend == [][Through(PrependsTo)]_vars
IconsThroughMidpoint == [][Through(InsertsMidpointIn)]_vars
IconsThroughDeletePoint == [][Through(DeletesOtherPointOf)]_vars
IconsThroughDeleteSegment == [][Through(DeletesSegmentElsewhereIn)]_vars

\* C28: an icon set on a point of a path is on the same grid point after every
\* later edit of the path that does not remove the point: a point prepended
\* at the start, a midpoint inserted with the A key, a different point
\* deleted, a segment deleted elsewhere in the path.
C28_IconStaysOnPoint ==
    [][/\ Through(PrependsTo)
       /\ Through(InsertsMidpointIn)
       /\ Through(DeletesOtherPointOf)
       /\ Through(DeletesSegmentElsewhereIn)]_vars

----------------------------------------------------------------------------
(* Design strings: the icons through encoding and decoding *)

\* the entries of the icon map of path k of the design
IconMap(k) == {design[k].icons[i] : i \in 1..Len(design[k].icons)}

PointsRestored ==
    /\ Len(decoded) = Len(design)
    /\ \A k \in 1..Len(decoded) : decoded[k].points = design[k].points

IconsRestored ==
    /\ Len(decoded) = Len(design)
    /\ \A k \in 1..Len(decoded) : decoded[k].icons = IconMap(k)

OneCharIndices ==
    \A k \in 1..Len(design) : \A e \in IconMap(k) : e.index < Len(base62)

PointsRestoredAlways == HasDecoded => PointsRestored
IconsRestoredBelow62 == (HasDecoded /\ OneCharIndices) => IconsRestored

\* C29: decoding the encoded design gives, path by path, the icon map of the
\* design (the same indices with the same icon types) and the points of the
\* design, whatever the length of a path and the index of an icon.
C29_IconsRoundTrip == HasDecoded => (PointsRestored /\ IconsRestored)

----------------------------------------------------------------------------
(* The maze generator: what generateMaze returns *)

Returned == gen.pc = "done"

\* the crossing test of the maze checks (design/spec.md): segments that share
\* an endpoint do not count
direction(p1, p2, p3) == (p3.x - p1.x) * (p2.y - p1.y) - (p2.x - p1.x) * (p3.y - p1.y)

onSegment(p1, p2, p) ==
    /\ MinOf(p1.x, p2.x) <= p.x /\ p.x <= MaxOf(p1.x, p2.x)
    /\ MinOf(p1.y, p2.y) <= p.y /\ p.y <= MaxOf(p1.y, p2.y)

segmentsIntersect(p1, p2, p3, p4) ==
    LET d1 == direction(p3, p4, p1)
        d2 == direction(p3, p4, p2)
        d3 == direction(p1, p2, p3)
        d4 == direction(p1, p2, p4)
    IN  IF p1 = p3 \/ p1 = p4 \/ p2 = p3 \/ p2 = p4 THEN FALSE
        ELSE IF /\ (d1 > 0 /\ d2 < 0) \/ (d1 < 0 /\ d2 > 0)
                /\ (d3 > 0 /\ d4 < 0) \/ (d3 < 0 /\ d4 > 0)
        THEN TRUE
        ELSE \/ d1 = 0 /\ onSegment(p3, p4, p1)
             \/ d2 = 0 /\ onSegment(p3, p4, p2)
             \/ d3 = 0 /\ onSegment(p1, p2, p3)
             \/ d4 = 0 /\ onSegment(p1, p2, p4)

\* the segments of path k of the maze: [p1, p2]
SegmentsOfPath(k) ==
    {[p1 |-> mazePaths[k][i], p2 |-> mazePaths[k][i + 1]] : i \in 1..(Len(mazePaths[k]) - 1)}

IsDiagonal(s) == s.p1.x # s.p2.x /\ s.p1.y # s.p2.y

\* C21: in a maze generateMaze returns, whatever the maze type and the
\* outcomes of the random choices, no segment of a path intersects or
\* overlaps a segment of another path, unless the two share an endpoint.
C21_NoCrossings ==
    Returned =>
        \A k, l \in 1..Len(mazePaths) :
            k # l => \A s \in SegmentsOfPath(k) : \A t \in SegmentsOfPath(l) :
                         ~segmentsIntersect(s.p1, s.p2, t.p1, t.p2)

\* a returned maze in which two paths have diagonal segments in neighbouring
\* cells and a segment of one path ends on a point of another path
DiagonalsNearby ==
    \E k, l \in 1..Len(mazePaths) :
        /\ k # l
        /\ \E s \in SegmentsOfPath(k) : \E t \in SegmentsOfPath(l) :
               /\ IsDiagonal(s) /\ IsDiagonal(t)
               /\ Abs(MinOf(s.p1.x, s.p2.x) - MinOf(t.p1.x, t.p2.x)) <= 1
               /\ Abs(MinOf(s.p1.y, s.p2.y) - MinOf(t.p1.y, t.p2.y)) <= 1

PathsTouch ==
    \E k, l \in 1..Len(mazePaths) :
        /\ k # l
        /\ \E s \in SegmentsOfPath(k) : \E t \in SegmentsOfPath(l) :
               s.p1 = t.p1 \/ s.p1 = t.p2 \/ s.p2 = t.p1 \/ s.p2 = t.p2

C21_Witness == Returned /\ DiagonalsNearby /\ PathsTouch

\* C30: every point of every path of a maze generateMaze returns is on the
\* board (0 <= x < GRID_POINTS_X, 0 <= y < GRID_POINTS_Y) and outside the
\* title box, the first point of a path and the points of the merge and
\* fallback steps included.
C30_PointsOnBoardOutsideTitleBox ==
    Returned =>
        \A k \in 1..Len(mazePaths) : \A i \in 1..Len(mazePaths[k]) :
            isInBounds(mazePaths[k][i]) /\ ~isInTitleBox(mazePaths[k][i])

====
